---- MODULE Spec2Model ----
(***************************************************************************)
(* State-machine model of the Vairified client library: the client         *)
(* constructor, the request executor (Vairified.request / handleError),    *)
(* the API facade methods built on it, and the entities of                 *)
(* src/src/models.ts with their getters and follow-up methods.             *)
(*                                                                         *)
(* JavaScript values are encoded as follows.                               *)
(*   - a string that the code takes apart (a URL, a header value) is a     *)
(*     sequence of one-token strings; a string the code only compares is   *)
(*     a TLA+ string;                                                      *)
(*   - an optional value is None (undefined / null) or Some(v).            *)
(***************************************************************************)
EXTENDS Integers, Sequences, FiniteSets, TLC

VARIABLES
    ctorIn,     \* the arguments and process environment given to `new Vairified`
    client,     \* the Vairified instance: its readonly fields, or that construction threw
    calls,      \* one record per facade-method invocation (its position and result)
    timers,     \* the runtime's table of armed setTimeout timers (by invocation)
    held,       \* the entities the caller built itself with `new`, by class
    probe       \* the last entity whose getters the caller read, with what they returned

vars == <<ctorIn, client, calls, timers, held, probe>>

----------------------------------------------------------------------------
(* Optional values *)

None == <<>>

Some(v) == <<v>>

IsSome(m) == m # None

Get(m) == m[1]

\* JS truthiness of an optional TLA+-string ('' and undefined are falsy)
TruthyStr(m) == IsSome(m) /\ Get(m) # ""

\* JS truthiness of an optional token-sequence string
TruthySeq(m) == IsSome(m) /\ Get(m) # <<>>

\* JS truthiness of an optional number (0 and undefined are falsy)
TruthyNum(m) == IsSome(m) /\ Get(m) # 0

----------------------------------------------------------------------------
(* Client construction: src/src/errors.ts 135-233 *)

\* Own keys of the ENVIRONMENTS object literal
EnvNames == {"production", "staging", "local"}

\* Property names every object literal inherits from Object.prototype; the
\* `in` operator and a property read both see them.
ObjectPrototypeKeys == {"constructor", "toString", "valueOf", "hasOwnProperty", "__proto__"}

\* ENVIRONMENTS[name]: own properties are the preset URLs; an inherited
\* property reads as the Object.prototype member (a function or object),
\* a missing one as undefined.
ENVIRONMENTS(name) ==
    CASE name = "production" -> Some(<<"https:", "/", "/", "api-next.vairified.com", "/", "api", "/", "v1">>)
      [] name = "staging" -> Some(<<"https:", "/", "/", "api-staging.vairified.com", "/", "api", "/", "v1">>)
      [] name = "local" -> Some(<<"http:", "/", "/", "localhost:3001", "/", "api", "/", "v1">>)
      [] name \in ObjectPrototypeKeys -> Some(<<"Object.prototype", name>>)
      [] OTHER -> None

\* `name in ENVIRONMENTS`
InEnvironments(name) == name \in EnvNames \cup ObjectPrototypeKeys

DEFAULT_BASE_URL == Get(ENVIRONMENTS("production"))

DEFAULT_TIMEOUT == 30000

\* getEnvVar(name): the variable's value when `process` exists and the value
\* is truthy, otherwise ''
getEnvVar(environ, name) ==
    IF environ.hasProcess /\ TruthyStr(environ[name]) THEN Get(environ[name]) ELSE ""

getEnvApiKey(environ) == getEnvVar(environ, "VAIRIFIED_API_KEY")

\* options.apiKey || this.getEnvApiKey()
ResolveApiKey(options, environ) ==
    IF TruthyStr(options.apiKey) THEN Get(options.apiKey) ELSE getEnvApiKey(environ)

\* A mutation of ApiKeyMissing: the guard is dropped
ApiKeyMissingNever(apiKey) == FALSE

\* if (!this.apiKey) throw new Error('API key required. ...')
ApiKeyMissing(apiKey) == apiKey = ""

\* String.prototype.replace(/\/$/, ''): one trailing slash is removed
StripTrailingSlash(url) ==
    IF Len(url) > 0 /\ url[Len(url)] = "/" THEN SubSeq(url, 1, Len(url) - 1) ELSE url

\* envVar && envVar in ENVIRONMENTS ? envVar : 'production'
DefaultEnv(environ) ==
    LET envVar == getEnvVar(environ, "VAIRIFIED_ENV")
    IN  IF envVar # "" /\ InEnvironments(envVar) THEN envVar ELSE "production"

\* The base-URL resolution of the constructor (lines 205-219)
ResolveBase(options, environ) ==
    IF TruthySeq(options.baseUrl)
    THEN [baseUrl |-> StripTrailingSlash(Get(options.baseUrl)), env |-> "production"]
    ELSE IF TruthyStr(options.env)
    THEN [baseUrl |-> Get(ENVIRONMENTS(Get(options.env))), env |-> Get(options.env)]
    ELSE LET defaultEnv == DefaultEnv(environ)
             preset == ENVIRONMENTS(defaultEnv)
         IN  [baseUrl |-> IF TruthySeq(preset) THEN Get(preset) ELSE DEFAULT_BASE_URL,
              env |-> defaultEnv]

\* options.timeout || DEFAULT_TIMEOUT
ResolveTimeout(options) ==
    IF TruthyNum(options.timeout) THEN Get(options.timeout) ELSE DEFAULT_TIMEOUT

NoOptions == [apiKey |-> None, env |-> None, baseUrl |-> None, timeout |-> None]

NoEnviron == [hasProcess |-> TRUE, VAIRIFIED_API_KEY |-> None, VAIRIFIED_ENV |-> None]

NoClient == [state |-> "none", apiKey |-> "", baseUrl |-> <<>>, env |-> "", timeout |-> 0]

\* The constructor's result: the instance, or the throw of line 202
Constructed(options, environ) ==
    LET apiKey == ResolveApiKey(options, environ)
        base == ResolveBase(options, environ)
    IN  IF ApiKeyMissing(apiKey)
        THEN [NoClient EXCEPT !.state = "threw"]
        ELSE [state |-> "ready", apiKey |-> apiKey, baseUrl |-> base.baseUrl,
              env |-> base.env, timeout |-> ResolveTimeout(options)]

----------------------------------------------------------------------------
(* OAuth scope handling: src/src/oauth.ts 14-35, src/src/errors.ts 568-594 *)

\* Own keys of the SCOPES object literal
ScopeKeys == {"profile:read", "profile:email", "rating:read", "rating:history", "match:submit", "webhook:subscribe"}

DEFAULT_SCOPES == <<"profile:read", "rating:read">>

\* `scope in SCOPES`: true of own and of inherited property names
InScopes(scope) == scope \in ScopeKeys \cup ObjectPrototypeKeys

RECURSIVE SetFrom(_, _)
\* new Set(iterable) / Set.prototype.add, then Array.from: the distinct
\* elements in first-insertion order (acc holds those inserted so far)
SetFrom(acc, list) ==
    IF list = <<>> THEN acc
    ELSE LET x == Head(list)
         IN  SetFrom(IF \E i \in 1..Len(acc) : acc[i] = x THEN acc ELSE Append(acc, x), Tail(list))

\* A mutation of ScopeList: profile:read is not added
ScopeListAsGiven(scopes) == SetFrom(<<>>, scopes)

\* scopeSet = new Set(scopes); scopeSet.add('profile:read'); Array.from(scopeSet)
ScopeList(scopes) == SetFrom(<<>>, Append(scopes, "profile:read"))

RECURSIVE Join(_)
\* Array.prototype.join(','): the elements with a "," token between them
Join(list) ==
    IF list = <<>> THEN <<>>
    ELSE IF Len(list) = 1 THEN <<list[1]>>
    ELSE <<list[1], ",">> \o Join(Tail(list))

RECURSIVE Split(_)
\* String.prototype.split(','), defined on the strings Join produces
Split(str) ==
    IF str = <<>> THEN <<"">>
    ELSE IF Len(str) = 1 THEN <<str[1]>>
    ELSE <<str[1]>> \o Split(SubSeq(str, 3, Len(str)))

\* The first scope of the list that fails validation, if any (lines 579-583)
FirstInvalidScope(scopeList) ==
    LET bad == {i \in 1..Len(scopeList) : ~InScopes(scopeList[i])}
    IN  IF bad = {} THEN None
        ELSE Some(scopeList[CHOOSE i \in bad : \A j \in bad : i <= j])

----------------------------------------------------------------------------
(* Error taxonomy and handleError: src/src/errors.ts 12-94, 243-269 *)

\* A JS number: an integer, or NaN
Num(n) == [nan |-> FALSE, val |-> n]

NaN == [nan |-> TRUE, val |-> 0]

Digits == {"0", "1", "2", "3", "4", "5", "6", "7", "8", "9"}

DigitVal(ch) ==
    CASE ch = "0" -> 0 [] ch = "1" -> 1 [] ch = "2" -> 2 [] ch = "3" -> 3 [] ch = "4" -> 4
      [] ch = "5" -> 5 [] ch = "6" -> 6 [] ch = "7" -> 7 [] ch = "8" -> 8 [] ch = "9" -> 9

RECURSIVE SkipSpaces(_)
SkipSpaces(str) ==
    IF str # <<>> /\ Head(str) = " " THEN SkipSpaces(Tail(str)) ELSE str

RECURSIVE DigitPrefix(_)
\* The longest prefix of str made of decimal digits
DigitPrefix(str) ==
    IF str # <<>> /\ Head(str) \in Digits THEN <<Head(str)>> \o DigitPrefix(Tail(str)) ELSE <<>>

RECURSIVE DecimalValue(_)
DecimalValue(ds) ==
    IF ds = <<>> THEN 0 ELSE 10 * DecimalValue(SubSeq(ds, 1, Len(ds) - 1)) + DigitVal(ds[Len(ds)])

\* Number.parseInt(str, 10): leading white space is skipped, one sign is
\* taken, then the longest run of digits; NaN when there is no digit
ParseInt(str) ==
    LET s1 == SkipSpaces(str)
        signed == s1 # <<>> /\ Head(s1) \in {"-", "+"}
        s2 == IF signed THEN Tail(s1) ELSE s1
        ds == DigitPrefix(s2)
    IN  IF ds = <<>> THEN NaN
        ELSE IF signed /\ Head(s1) = "-" THEN Num(0 - DecimalValue(ds))
        ELSE Num(DecimalValue(ds))

\* retryAfter ? Number.parseInt(retryAfter, 10) : undefined, where retryAfter
\* is response.headers.get('Retry-After') (null when the header is absent)
RetryAfterOf(header) ==
    IF TruthySeq(header) THEN Some(ParseInt(Get(header))) ELSE None

NoOutcome ==
    [kind |-> "none", statusCode |-> None, retryAfter |-> None, errorCode |-> None, message |-> "",
     response |-> "undefined", value |-> None]

\* An error of the taxonomy as its constructor builds it
ErrorValue(kind, statusCode, message, response) ==
    [NoOutcome EXCEPT !.kind = kind, !.statusCode = statusCode, !.message = message, !.response = response]

\* A mutation of handleError: 404 is not mapped to NotFoundError
handleErrorNo404(status, header, body) ==
    LET message == IF body = "json_message" THEN "body.message" ELSE "statusText"
        response == IF body = "unreadable" THEN "undefined" ELSE "json"
    IN  CASE status = 401 -> ErrorValue("AuthenticationError", Some(401), message, response)
          [] status = 429 -> [ErrorValue("RateLimitError", Some(429), message, response) EXCEPT !.retryAfter = RetryAfterOf(header)]
          [] status = 400 -> ErrorValue("ValidationError", Some(400), message, response)
          [] OTHER -> ErrorValue("VairifiedError", Some(status), message, response)

\* handleError(response): body is how response.json() ended: "json_message"
\* (an object with a truthy message), "json_plain" (parsed, no message) or
\* "unreadable" (it threw, whatever the reason: the catch has no filter)
handleError(status, header, body) ==
    LET message == IF body = "json_message" THEN "body.message" ELSE "statusText"
        response == IF body = "unreadable" THEN "undefined" ELSE "json"
    IN  CASE status = 401 -> ErrorValue("AuthenticationError", Some(401), message, response)
          [] status = 404 -> ErrorValue("NotFoundError", Some(404), message, response)
          [] status = 429 -> [ErrorValue("RateLimitError", Some(429), message, response) EXCEPT !.retryAfter = RetryAfterOf(header)]
          [] status = 400 -> ErrorValue("ValidationError", Some(400), message, response)
          [] OTHER -> ErrorValue("VairifiedError", Some(status), message, response)

\* new OAuthError(`Invalid scope: ${scope}`, 'invalid_scope')
InvalidScopeError == [ErrorValue("OAuthError", None, "Invalid scope", "undefined") EXCEPT !.errorCode = Some("invalid_scope")]

\* A rejection that is not of the taxonomy: the fetch primitive's AbortError
\* or TypeError, response.json()'s SyntaxError, or a plain Error
ForeignError(kind) == ErrorValue(kind, None, "", "undefined")

\* The names of the taxonomy's classes
Taxonomy == {"VairifiedError", "RateLimitError", "AuthenticationError", "NotFoundError", "ValidationError", "OAuthError"}

----------------------------------------------------------------------------
(* Entities: src/src/models.ts *)

\* SearchFilters with every property omitted (src/src/types.ts, SearchFilters)
NoFilters ==
    [name |-> None, city |-> None, state |-> None, country |-> None, zipCode |-> None,
     ratingMin |-> None, ratingMax |-> None, gender |-> None, vairifiedOnly |-> None,
     age |-> None, ageMin |-> None, ageMax |-> None, sortBy |-> None, sortOrder |-> None,
     page |-> None, limit |-> None]

\* const page = filters.page ?? 1
PageOf(filters) == IF IsSome(filters.page) THEN Get(filters.page) ELSE 1

\* filters.limit ?? 20
LimitOf(filters) == IF IsSome(filters.limit) THEN Get(filters.limit) ELSE 20

\* a ?? b
Coalesce(a, b) == IF IsSome(a) THEN a ELSE b

\* Number.parseFloat(str) of a string without '.', 'e' or 'Infinity': on
\* such strings it reads what Number.parseInt(str, 10) reads
ParseFloat(str) == ParseInt(str)

\* x || 0 of a number: NaN and 0 are falsy
OrZero(x) == IF x.nan \/ x.val = 0 THEN Num(0) ELSE x

\* A value of RatingSplitsData: a bare number, or a RatingSplitData object
\* whose rating is a number or a string
SplitNumber(x) == [shape |-> "number", num |-> x, text |-> None, abbr |-> ""]

SplitObject(x, abbr) == [shape |-> "object", num |-> x, text |-> None, abbr |-> abbr]

SplitText(str, abbr) == [shape |-> "object", num |-> NaN, text |-> Some(str), abbr |-> abbr]

\* new RatingSplit(data) (src/src/models.ts 39-49)
RatingSplit(data) ==
    IF data.shape = "number"
    THEN [rating |-> data.num, abbr |-> ""]
    ELSE [rating |-> IF IsSome(data.text) THEN OrZero(ParseFloat(Get(data.text))) ELSE data.num,
          abbr |-> data.abbr]

\* new RatingSplits(data): the Map of the entries of data, in their order;
\* data is None when omitted (src/src/models.ts 63-70)
RatingSplits(data) ==
    IF IsSome(data)
    THEN [i \in 1..Len(Get(data)) |-> [key |-> Get(data)[i].key, split |-> RatingSplit(Get(data)[i].value)]]
    ELSE <<>>

\* RatingSplits.get(category): this.splits.get(category)?.rating
SplitsGet(splits, category) ==
    IF \E i \in 1..Len(splits) : splits[i].key = category
    THEN Some(splits[CHOOSE i \in 1..Len(splits) : splits[i].key = category].split.rating)
    ELSE None

\* The legacy abbreviation each convenience getter falls back to
LegacyKey(name) ==
    CASE name = "open" -> "VO" [] name = "gender" -> "VG" [] name = "mixed" -> "VM"
      [] name = "recreational" -> "R" [] name = "singles" -> "S"

\* A mutation of SplitsGetter: the legacy abbreviation is looked up first
SplitsGetterLegacyFirst(splits, name) == Coalesce(SplitsGet(splits, LegacyKey(name)), SplitsGet(splits, name))

\* The getters open, gender, mixed, recreational, singles
\* (src/src/models.ts 78-100)
SplitsGetter(splits, name) == Coalesce(SplitsGet(splits, name), SplitsGet(splits, LegacyKey(name)))

\* r > 0 of a number: false for NaN
Positive(x) == ~x.nan /\ x.val > 0

\* A mutation of SplitsBest: zero and negative ratings are kept
SplitsBestUnfiltered(splits) ==
    LET ratings == {splits[i].split.rating.val : i \in {j \in 1..Len(splits) : ~splits[j].split.rating.nan}}
    IN  IF ratings # {} THEN Some(Num(CHOOSE r \in ratings : \A q \in ratings : q <= r)) ELSE None

\* RatingSplits.best (src/src/models.ts 103-108)
SplitsBest(splits) ==
    LET ratings == {splits[i].split.rating.val : i \in {j \in 1..Len(splits) : Positive(splits[j].split.rating)}}
    IN  IF ratings # {} THEN Some(Num(CHOOSE r \in ratings : \A q \in ratings : q <= r)) ELSE None

\* PlayerData with only its id: the optional properties of MemberData and
\* PlayerSearchData are all omitted
NoPlayerData ==
    [id |-> "", displayName |-> None, firstName |-> None, lastName |-> None, email |-> None,
     rating |-> None, isVairified |-> None, isConnected |-> None, ratingSplits |-> None,
     city |-> None, state |-> None, country |-> None, grantedScopes |-> None]

\* isSearchData(data): 'displayName' in data
isSearchData(data) == IsSome(data.displayName)

\* new Player(data, client) (src/src/models.ts 161-185); hasClient tells
\* whether a client was passed
Player(data, hasClient) ==
    [id |-> data.id,
     displayName |-> IF isSearchData(data) THEN data.displayName ELSE None,
     firstName |-> IF isSearchData(data) THEN None ELSE Coalesce(data.firstName, Some("")),
     lastName |-> IF isSearchData(data) THEN None ELSE Coalesce(data.lastName, Some("")),
     rating |-> Get(Coalesce(data.rating, Some(0))),
     isVairified |-> Get(Coalesce(data.isVairified, Some(FALSE))),
     isConnected |-> IF isSearchData(data) THEN Get(Coalesce(data.isConnected, Some(FALSE))) ELSE TRUE,
     ratingSplits |-> IF isSearchData(data) THEN RatingSplits(None) ELSE RatingSplits(data.ratingSplits),
     city |-> data.city, state |-> data.state, country |-> data.country,
     client |-> hasClient]

\* Player.verifiedRating
verifiedRating(player) == SplitsBest(player.ratingSplits)

RECURSIVE TrimStart(_)
\* Of a string made of tokens, drop the leading tokens that are white space
TrimStart(tokens) ==
    IF tokens # <<>> /\ Head(tokens) \in {"", " "} THEN TrimStart(Tail(tokens)) ELSE tokens

RECURSIVE TrimEnd(_)
TrimEnd(tokens) ==
    IF tokens # <<>> /\ tokens[Len(tokens)] \in {"", " "}
    THEN TrimEnd(SubSeq(tokens, 1, Len(tokens) - 1)) ELSE tokens

\* String.prototype.trim of a string made of tokens, each token either
\* white space or free of it
Trim(tokens) == TrimEnd(TrimStart(tokens))

\* A mutation of PlayerName: a first name alone is a name
PlayerNameBestEffort(player) ==
    IF TruthyStr(player.firstName) \/ TruthyStr(player.lastName)
    THEN Trim(<<Get(Coalesce(player.firstName, Some(""))), " ", Get(Coalesce(player.lastName, Some("")))>>)
    ELSE IF TruthyStr(player.displayName) THEN <<Get(player.displayName)>> ELSE <<>>

\* Player.name (src/src/models.ts 187-193), as a string made of tokens:
\* `${firstName} ${lastName}`.trim() or displayName ?? ''
PlayerName(player) ==
    IF TruthyStr(player.firstName) /\ TruthyStr(player.lastName)
    THEN Trim(<<Get(player.firstName), " ", Get(player.lastName)>>)
    ELSE IF TruthyStr(player.displayName) THEN <<Get(player.displayName)>> ELSE <<>>

\* new Member(data, client) (src/src/models.ts 219-223)
Member(data, hasClient) ==
    [player |-> Player(data, hasClient),
     email |-> data.email,
     grantedScopes |-> Get(Coalesce(data.grantedScopes, Some(<<>>)))]

\* A mutation of AssignMember: nothing is copied
AssignMemberNothing(target, data, defineFields) == target

\* Object.assign(this, updated) in Member.refresh, where updated is the
\* Member getMember built from data. Every property its constructor
\* assigned is copied. A declared property it did not assign (displayName
\* for member data, firstName and lastName for search data) is an own
\* property holding undefined when class fields are compiled with define
\* semantics, and is absent (the target keeps its value) otherwise.
AssignMember(target, data, defineFields) ==
    LET updated == Member(data, TRUE)
    IN  IF defineFields THEN updated
        ELSE [updated EXCEPT
                !.player.displayName = IF isSearchData(data) THEN @ ELSE target.player.displayName,
                !.player.firstName = IF isSearchData(data) THEN target.player.firstName ELSE @,
                !.player.lastName = IF isSearchData(data) THEN target.player.lastName ELSE @]

\* RatingUpdateData with only its id
NoUpdateData ==
    [id |-> "", memberName |-> None, previousRating |-> None, newRating |-> None, ratingSplits |-> None]

\* new RatingUpdate(data, client) (src/src/models.ts 440-448), without changedAt
RatingUpdate(data, hasClient) ==
    [id |-> data.id,
     memberName |-> data.memberName,
     previousRating |-> Get(Coalesce(data.previousRating, Some(0))),
     newRating |-> Get(Coalesce(data.newRating, Some(0))),
     ratingSplits |-> RatingSplits(data.ratingSplits),
     client |-> hasClient]

\* new SearchResults(data, client, filters) (src/src/models.ts 489-496);
\* filters is None when omitted (the parameter then defaults to {})
SearchResults(data, hasClient, filters) ==
    [players |-> [i \in 1..Len(data.players) |-> Player(data.players[i], hasClient)],
     total |-> data.total,
     page |-> data.page,
     limit |-> data.limit,
     client |-> hasClient,
     filters |-> filters]

\* SearchResults.hasMore (src/src/models.ts 498-501)
hasMore(results) == results.page * results.limit < results.total

\* A mutation of pages: the quotient is rounded down
pagesFloor(results) == IF results.limit > 0 THEN results.total \div results.limit ELSE 0

\* SearchResults.pages: Math.ceil(total / limit) of integers
\* (src/src/models.ts 503-506)
pages(results) ==
    IF results.limit > 0 THEN (results.total + results.limit - 1) \div results.limit ELSE 0

\* A mutation of NextPageFilters: the page after the one that was asked for
NextPageFiltersRequested(results) ==
    LET filters == IF IsSome(results.filters) THEN Get(results.filters) ELSE NoFilters
    IN  [filters EXCEPT !.page = Some(PageOf(filters) + 1)]

\* The argument nextPage passes to search: { ...this._filters, page: this.page + 1 }
\* (src/src/models.ts 532-535)
NextPageFilters(results) ==
    LET filters == IF IsSome(results.filters) THEN Get(results.filters) ELSE NoFilters
    IN  [filters EXCEPT !.page = Some(results.page + 1)]

\* MatchResultData: its required properties, and the optional ones
\* (src/src/types.ts 213-226)
MatchResultData(success, dryRun, errors) ==
    [success |-> success, numMatches |-> 1, numGames |-> 2, dryRun |-> dryRun, message |-> None, errors |-> errors]

\* A mutation of MatchResult: a result is a dry run unless it says otherwise
MatchResultDryByDefault(data) ==
    [success |-> data.success, numMatches |-> data.numMatches, numGames |-> data.numGames,
     dryRun |-> Get(Coalesce(data.dryRun, Some(TRUE))),
     message |-> data.message,
     errors |-> Get(Coalesce(data.errors, Some(<<>>)))]

\* new MatchResult(data) (src/src/models.ts 395-402)
MatchResult(data) ==
    [success |-> data.success, numMatches |-> data.numMatches, numGames |-> data.numGames,
     dryRun |-> Get(Coalesce(data.dryRun, Some(FALSE))),
     message |-> data.message,
     errors |-> Get(Coalesce(data.errors, Some(<<>>)))]

\* A mutation of ok: success alone decides
okBySuccess(result) == result.success

\* MatchResult.ok (src/src/models.ts 409-411)
ok(result) == result.success /\ Len(result.errors) = 0

\* MatchInput with its required properties; the optional ones omitted
\* (event, bracket and date are not followed)
MatchInput(team1, team2, scores) ==
    [team1 |-> team1, team2 |-> team2, scores |-> scores,
     matchType |-> None, source |-> None, location |-> None, identifier |-> None]

\* new Match(data) (src/src/models.ts 300-311); an omitted identifier is
\* replaced by a generated one
Match(data) ==
    [team1 |-> data.team1, team2 |-> data.team2, scores |-> data.scores,
     matchType |-> Get(Coalesce(data.matchType, Some("SIDEOUT"))),
     source |-> Get(Coalesce(data.source, Some("PARTNER"))),
     location |-> data.location,
     identifier |-> Get(Coalesce(data.identifier, Some("generated")))]

\* A mutation of format: a team of two is what makes a match DOUBLES
formatByPair(match) == IF Len(match.team1) = 2 THEN "DOUBLES" ELSE "SINGLES"

\* Match.format (src/src/models.ts 313-316)
format(match) == IF Len(match.team1) = 1 THEN "SINGLES" ELSE "DOUBLES"

\* How many games of scores the team on side (1 or 2) won
Wins(scores, side) == Cardinality({i \in 1..Len(scores) : scores[i][side] > scores[i][3 - side]})

\* A mutation of winner: only the five games that are sent are counted
winnerOfFirstFive(match) ==
    LET scores == SubSeq(match.scores, 1, IF Len(match.scores) < 5 THEN Len(match.scores) ELSE 5)
    IN  IF Wins(scores, 1) > Wins(scores, 2) THEN 1
        ELSE IF Wins(scores, 2) > Wins(scores, 1) THEN 2 ELSE 0

\* Match.winner (src/src/models.ts 318-329)
winner(match) ==
    IF Wins(match.scores, 1) > Wins(match.scores, 2) THEN 1
    ELSE IF Wins(match.scores, 2) > Wins(match.scores, 1) THEN 2 ELSE 0

\* this.team[1], undefined past the end
SecondPlayer(team) == IF Len(team) >= 2 THEN Some(team[2]) ELSE None

\* A mutation of toJSON: every game is written
toJSONAllGames(match) ==
    IF ~(match.team1 # <<>> /\ match.team1[1] # "" /\ match.team2 # <<>> /\ match.team2[1] # "")
    THEN None
    ELSE Some([identifier |-> match.identifier,
               format |-> format(match),
               matchSource |-> match.source,
               matchType |-> match.matchType,
               location |-> match.location,
               teamA |-> [player1 |-> match.team1[1],
                          player2 |-> IF TruthyStr(SecondPlayer(match.team1)) THEN SecondPlayer(match.team1) ELSE None,
                          games |-> [i \in 1..Len(match.scores) |-> match.scores[i][1]]],
               teamB |-> [player1 |-> match.team2[1],
                          player2 |-> IF TruthyStr(SecondPlayer(match.team2)) THEN SecondPlayer(match.team2) ELSE None,
                          games |-> [i \in 1..Len(match.scores) |-> match.scores[i][2]]]])

\* Match.toJSON() (src/src/models.ts 336-373): None when it throws; the
\* games game1..game5 of a team are the sequence of its scores
toJSON(match) ==
    IF ~(match.team1 # <<>> /\ match.team1[1] # "" /\ match.team2 # <<>> /\ match.team2[1] # "")
    THEN None
    ELSE LET sent == IF Len(match.scores) < 5 THEN Len(match.scores) ELSE 5
         IN  Some([identifier |-> match.identifier,
                   format |-> format(match),
                   matchSource |-> match.source,
                   matchType |-> match.matchType,
                   location |-> match.location,
                   teamA |-> [player1 |-> match.team1[1],
                              player2 |-> IF TruthyStr(SecondPlayer(match.team1)) THEN SecondPlayer(match.team1) ELSE None,
                              games |-> [i \in 1..sent |-> match.scores[i][1]]],
                   teamB |-> [player1 |-> match.team2[1],
                              player2 |-> IF TruthyStr(SecondPlayer(match.team2)) THEN SecondPlayer(match.team2) ELSE None,
                              games |-> [i \in 1..sent |-> match.scores[i][2]]]])

----------------------------------------------------------------------------
(* Facade methods and the request each one makes: src/src/errors.ts 331-752 *)

Ops == {"getMember", "search", "findPlayer", "submitMatch", "submitMatches", "getRatingUpdates", "testWebhook",
        "startOAuth", "exchangeToken", "refreshAccessToken", "revokeConnection", "getAvailableScopes", "getUsage"}

\* The methods of the "OAuth Operations" section whose documentation says
\* `@throws OAuthError`
OAuthOps == {"startOAuth", "exchangeToken", "refreshAccessToken", "revokeConnection"}

\* The HTTP method each facade method passes to request()
MethodOf(op) ==
    IF op \in {"getMember", "search", "findPlayer", "getRatingUpdates", "getAvailableScopes", "getUsage"}
    THEN "GET" ELSE "POST"

\* The path each facade method passes to request()
PathOf(op) ==
    CASE op = "getMember" -> "/partner/member"
      [] op \in {"search", "findPlayer"} -> "/partner/search"
      [] op \in {"submitMatch", "submitMatches"} -> "/partner/matches"
      [] op = "getRatingUpdates" -> "/partner/rating-updates"
      [] op = "testWebhook" -> "/partner/webhook-test"
      [] op = "startOAuth" -> "/partner/oauth/authorize"
      [] op = "exchangeToken" -> "/partner/oauth/token"
      [] op = "refreshAccessToken" -> "/partner/oauth/refresh"
      [] op = "revokeConnection" -> "/partner/oauth/revoke"
      [] op = "getAvailableScopes" -> "/partner/oauth/scopes"
      [] op = "getUsage" -> "/partner/usage"

NoArgs == [scopes |-> None, matches |-> <<>>, filters |-> NoFilters, id |-> ""]

NoReq == [method |-> "", url |-> <<>>, apiKey |-> "", scope |-> None, query |-> <<>>, matches |-> <<>>]

\* The scopes parameter of startOAuth: DEFAULT_SCOPES when omitted
ScopesArg(args) == IF IsSome(args.scopes) THEN Get(args.scopes) ELSE DEFAULT_SCOPES

\* Match.toJSON throws unless each team has a (truthy) first player
\* (src/src/models.ts 337-342)
HasFirstPlayers(match) ==
    /\ match.team1 # <<>> /\ match.team1[1] # ""
    /\ match.team2 # <<>> /\ match.team2[1] # ""

\* What a facade method throws before it calls request(), if anything:
\* startOAuth its invalid_scope error, submitMatches the Error of the first
\* match that cannot be serialized
Precondition(op, args) ==
    IF op = "startOAuth" /\ IsSome(FirstInvalidScope(ScopeList(ScopesArg(args))))
    THEN Some(InvalidScopeError)
    ELSE IF op \in {"submitMatch", "submitMatches"} /\ \E i \in 1..Len(args.matches) : ~HasFirstPlayers(args.matches[i])
    THEN Some(ForeignError("Error"))
    ELSE None

\* A value of the params object: a JS number, string or boolean
JsNumber(n) == [type |-> "number", num |-> n, str |-> ""]

JsString(s) == [type |-> "string", num |-> 0, str |-> s]

JsTrue == [type |-> "boolean", num |-> 1, str |-> ""]

\* One property of the params object
Param(key, value) == <<[key |-> key, value |-> value]>>

\* `if (cond) params.x = ...`
When(cond, entries) == IF cond THEN entries ELSE <<>>

\* A mutation of AgeParams: the range is looked at before the exact age
AgeParamsRangeFirst(filters) ==
    IF IsSome(filters.ageMin) /\ IsSome(filters.ageMax)
    THEN Param("ageFilterType", JsString("range")) \o Param("age1", JsNumber(Get(filters.ageMin)))
         \o Param("age2", JsNumber(Get(filters.ageMax)))
    ELSE IF IsSome(filters.age)
    THEN Param("ageFilterType", JsString("exact")) \o Param("age1", JsNumber(Get(filters.age)))
    ELSE IF IsSome(filters.ageMin)
    THEN Param("ageFilterType", JsString("above")) \o Param("age1", JsNumber(Get(filters.ageMin)))
    ELSE IF IsSome(filters.ageMax)
    THEN Param("ageFilterType", JsString("below")) \o Param("age1", JsNumber(Get(filters.ageMax)))
    ELSE <<>>

\* search(), "Age handling" (src/src/errors.ts 385-399)
AgeParams(filters) ==
    IF IsSome(filters.age)
    THEN Param("ageFilterType", JsString("exact")) \o Param("age1", JsNumber(Get(filters.age)))
    ELSE IF IsSome(filters.ageMin) /\ IsSome(filters.ageMax)
    THEN Param("ageFilterType", JsString("range")) \o Param("age1", JsNumber(Get(filters.ageMin)))
         \o Param("age2", JsNumber(Get(filters.ageMax)))
    ELSE IF IsSome(filters.ageMin)
    THEN Param("ageFilterType", JsString("above")) \o Param("age1", JsNumber(Get(filters.ageMin)))
    ELSE IF IsSome(filters.ageMax)
    THEN Param("ageFilterType", JsString("below")) \o Param("age1", JsNumber(Get(filters.ageMax)))
    ELSE <<>>

\* A mutation of PageParams: the offset counts the requested page too
PageParamsInclusive(filters) ==
    When(PageOf(filters) > 1, Param("offset", JsNumber(PageOf(filters) * LimitOf(filters))))

\* search(), "Pagination" (src/src/errors.ts 401-405)
PageParams(filters) ==
    When(PageOf(filters) > 1, Param("offset", JsNumber((PageOf(filters) - 1) * LimitOf(filters))))

\* The params object search() builds, its properties in insertion order
\* (src/src/errors.ts 367-405)
SearchParams(filters) ==
    Param("limit", JsNumber(LimitOf(filters)))
    \o When(TruthyStr(filters.name), Param("member", JsString(Get(filters.name))))
    \o When(TruthyStr(filters.city), Param("city", JsString(Get(filters.city))))
    \o When(TruthyStr(filters.state), Param("state", JsString(Get(filters.state))))
    \o When(TruthyStr(filters.country), Param("country", JsString(Get(filters.country))))
    \o When(TruthyStr(filters.zipCode), Param("zip", JsString(Get(filters.zipCode))))
    \o When(IsSome(filters.ratingMin), Param("rating1", JsNumber(Get(filters.ratingMin))))
    \o When(IsSome(filters.ratingMax), Param("rating2", JsNumber(Get(filters.ratingMax))))
    \o When(TruthyStr(filters.gender), Param("gender", JsString(Get(filters.gender))))
    \o When(IsSome(filters.vairifiedOnly) /\ Get(filters.vairifiedOnly), Param("vairified", JsTrue))
    \o When(TruthyStr(filters.sortBy),
            Param("sortField", JsString(Get(filters.sortBy)))
            \o Param("sortDirection", JsString(IF IsSome(filters.sortOrder) THEN Get(filters.sortOrder) ELSE "desc")))
    \o AgeParams(filters)
    \o PageParams(filters)

\* The argument findPlayer passes to search: { name, limit: 1 }
FindPlayerFilters(filters) == [NoFilters EXCEPT !.name = filters.name, !.limit = Some(1)]

\* The params object a facade method passes to request(); only those of
\* getMember, search and findPlayer are followed
ParamsOf(op, args) ==
    CASE op = "getMember" -> Param("id", JsString(args.id))
      [] op = "search" -> SearchParams(args.filters)
      [] op = "findPlayer" -> SearchParams(FindPlayerFilters(args.filters))
      [] OTHER -> <<>>

DigitChar(d) ==
    CASE d = 0 -> "0" [] d = 1 -> "1" [] d = 2 -> "2" [] d = 3 -> "3" [] d = 4 -> "4"
      [] d = 5 -> "5" [] d = 6 -> "6" [] d = 7 -> "7" [] d = 8 -> "8" [] d = 9 -> "9"

RECURSIVE NaturalToString(_)
NaturalToString(n) ==
    IF n < 10 THEN <<DigitChar(n)>> ELSE Append(NaturalToString(n \div 10), DigitChar(n % 10))

\* String(value) of an integer number, a string (kept as one token) or true
StringOf(value) ==
    CASE value.type = "number" ->
             IF value.num < 0 THEN <<"-">> \o NaturalToString(0 - value.num) ELSE NaturalToString(value.num)
      [] value.type = "string" -> <<value.str>>
      [] value.type = "boolean" -> <<"true">>

\* request(): searchParams.append(key, String(value)) for each property of
\* params (none of them is undefined or null here), src/src/errors.ts 278-287
QueryOf(params) == [i \in 1..Len(params) |-> [key |-> params[i].key, text |-> StringOf(params[i].value)]]

\* A mutation of MatchesBody: the payloads are written last match first
MatchesBodyReversed(matches) ==
    [i \in 1..Len(matches) |-> Get(toJSON(matches[Len(matches) + 1 - i]))]

\* The body of submitMatches: matches.map((m) => m.toJSON())
\* (src/src/errors.ts 490-492), when no toJSON throws
MatchesBody(matches) ==
    [i \in 1..Len(matches) |-> Get(toJSON(matches[i]))]

\* The fetch() call request() makes: `${this.baseUrl}${path}`, the query
\* string of its params, the headers of getHeaders(), for startOAuth
\* the body's scope: scopeList.join(','), and for submitMatches the body's
\* matches
BuildRequest(cl, op, args) ==
    [method |-> MethodOf(op),
     url |-> Append(cl.baseUrl, PathOf(op)),
     apiKey |-> cl.apiKey,
     scope |-> IF op = "startOAuth" THEN Some(Join(ScopeList(ScopesArg(args)))) ELSE None,
     query |-> QueryOf(ParamsOf(op, args)),
     matches |-> IF op \in {"submitMatch", "submitMatches"} THEN MatchesBody(args.matches) ELSE <<>>]

\* A parsed 2xx body. For /partner/search it is a bare array of player
\* data or a SearchResultsData envelope; for /partner/member it is MemberData
ArrayData(players) ==
    [shape |-> "array", players |-> players, total |-> 0, page |-> 0, limit |-> 0, member |-> NoPlayerData]

EnvelopeData(players, total, page, limit) ==
    [shape |-> "envelope", players |-> players, total |-> total, page |-> page, limit |-> limit, member |-> NoPlayerData]

MemberDataBody(member) ==
    [shape |-> "member", players |-> <<>>, total |-> 0, page |-> 0, limit |-> 0, member |-> member]

\* A mutation of Normalized: the total of a bare array is the requested limit
NormalizedTotalIsLimit(data, filters) ==
    IF data.shape = "array"
    THEN [data EXCEPT !.total = LimitOf(filters), !.page = PageOf(filters), !.limit = LimitOf(filters)]
    ELSE data

\* search(): Array.isArray(data) ? { players: data, total: data.length,
\* page, limit: filters.limit ?? 20 } : data (src/src/errors.ts 416-418)
Normalized(data, filters) ==
    IF data.shape = "array"
    THEN [data EXCEPT !.total = Len(data.players), !.page = PageOf(filters), !.limit = LimitOf(filters)]
    ELSE data

\* What search resolves with: new SearchResults(normalized, this, filters)
SearchResultOf(filters, data) == SearchResults(Normalized(data, filters), TRUE, Some(filters))

\* What a facade method resolves with once request() has returned data;
\* the results of methods other than search, findPlayer and getMember
\* are not followed
ResultOf(op, args, data) ==
    CASE op = "search" -> [class |-> "SearchResults", results |-> Some(SearchResultOf(args.filters, data)),
                           player |-> None, member |-> None]
      [] op = "findPlayer" ->
             LET results == SearchResultOf(FindPlayerFilters(args.filters), data)
             IN  [class |-> "Player", results |-> None,
                  player |-> IF results.players # <<>> THEN Some(results.players[1]) ELSE None, member |-> None]
      [] op = "getMember" -> [class |-> "Member", results |-> None, player |-> None,
                              member |-> Some(Member(data.member, TRUE))]
      [] OTHER -> [class |-> "json", results |-> None, player |-> None, member |-> None]

----------------------------------------------------------------------------
(* The request executor: src/src/errors.ts 271-306 *)

MaxCalls == 2

CallIds == 1..MaxCalls

\* A 2xx body that has not been read
NoData == [shape |-> "none", players |-> <<>>, total |-> 0, page |-> 0, limit |-> 0, member |-> NoPlayerData]

\* via tells who called the facade method: the caller itself, or one of
\* the entities' follow-up methods; origin is then where that entity is:
\* 0 for the one in held, c for the result of call c
IdleCall ==
    [op |-> "none", args |-> NoArgs, via |-> "caller", origin |-> 0, phase |-> "idle", sent |-> 0, req |-> NoReq,
     status |-> 0, retryHdr |-> None, data |-> NoData, aborted |-> FALSE, exit |-> "none", outcome |-> NoOutcome]

\* No entity built by the caller
NoHeld == [member |-> None, results |-> None, update |-> None]

\* No getter read
NoProbe == [class |-> "none"]

\* response.ok
ResponseOk(status) == status \in 200..299

\* A call is in flight from the fetch() call until request() settles
InFlight(call) == call.phase \in {"fetching", "okbody", "errbody"}

\* A mutation of ClearTimeoutOnExit: clearTimeout after the return only, not in a finally
ClearTimeoutOnReturn(ts, c, exit) == IF exit = "return" THEN ts \ {c} ELSE ts

\* finally { clearTimeout(timeoutId) }: runs on every way out of the try
ClearTimeoutOnExit(ts, c, exit) == ts \ {c}

\* A mutation of Settle: a 429 is retried once
SettleRetrying(call, exit, outcome) ==
    IF call.status = 429 /\ call.sent < 2
    THEN [call EXCEPT !.phase = "fetching", !.sent = call.sent + 1, !.status = 0, !.retryHdr = None]
    ELSE [call EXCEPT !.phase = "done", !.exit = exit, !.outcome = outcome]

\* request() settles and the facade method hands the result to its caller
\* as it is: no facade method has a catch
Settle(call, exit, outcome) ==
    [call EXCEPT !.phase = "done", !.exit = exit, !.outcome = outcome]

Init ==
    /\ ctorIn = [called |-> FALSE, options |-> NoOptions, environ |-> NoEnviron]
    /\ client = NoClient
    /\ calls = [c \in CallIds |-> IdleCall]
    /\ timers = {}
    /\ held = NoHeld
    /\ probe = NoProbe

\* new Vairified(options) in a process environment environ
Construct(options, environ) ==
    /\ client.state = "none"
    /\ ctorIn' = [called |-> TRUE, options |-> options, environ |-> environ]
    /\ client' = Constructed(options, environ)
    /\ UNCHANGED <<calls, timers, held, probe>>

\* A facade method is called: it runs up to its first await. Either it
\* throws its precondition error, or request() arms the timer and calls fetch.
InvokeVia(c, op, args, via, origin) ==
    /\ client.state = "ready"
    /\ calls[c].phase = "idle"
    /\ \A d \in CallIds : d < c => calls[d].phase # "idle"
    /\ LET started == [IdleCall EXCEPT !.op = op, !.args = args, !.via = via, !.origin = origin]
           pre == Precondition(op, args)
       IN  IF IsSome(pre)
           THEN /\ calls' = [calls EXCEPT ![c] = Settle(started, "precondition", Get(pre))]
                /\ UNCHANGED timers
           ELSE /\ calls' = [calls EXCEPT ![c] = [started EXCEPT !.phase = "fetching", !.sent = 1,
                                                        !.req = BuildRequest(client, op, args)]]
                /\ timers' = timers \cup {c}
    /\ UNCHANGED <<ctorIn, client, held, probe>>

\* The caller calls a facade method of the client
Invoke(c, op, args) == InvokeVia(c, op, args, "caller", 0)

\* The response's status line and headers arrive: fetch() resolves
RecvHeaders(c, status, header) ==
    /\ calls[c].phase = "fetching"
    /\ calls' = [calls EXCEPT ![c] = [@ EXCEPT !.status = status, !.retryHdr = header,
                                            !.phase = IF ResponseOk(status) THEN "okbody" ELSE "errbody"]]
    /\ UNCHANGED <<ctorIn, client, timers, held, probe>>

\* fetch() rejects: the transport failed before any response
TransportFail(c) ==
    /\ calls[c].phase = "fetching"
    /\ calls' = [calls EXCEPT ![c] = Settle(@, "transport", ForeignError("TypeError"))]
    /\ timers' = ClearTimeoutOnExit(timers, c, "transport")
    /\ UNCHANGED <<ctorIn, client, held, probe>>

\* The body of a non-2xx response has been read (or reading it failed):
\* handleError throws the mapped error
ErrBody(c, body) ==
    /\ calls[c].phase = "errbody"
    /\ calls' = [calls EXCEPT ![c] = Settle(@, "http", handleError(@.status, @.retryHdr, body))]
    /\ timers' = ClearTimeoutOnExit(timers, c, "http")
    /\ UNCHANGED <<ctorIn, client, held, probe>>

\* The body of a 2xx response has been read: response.json() resolves with
\* the parsed body, or rejects (SyntaxError: not JSON; TypeError: the
\* connection broke)
\* With result = "json", data is the parsed body and the facade method
\* resolves with what it makes of it.
\* When the method was called by Member.refresh, refresh goes on: it assigns
\* the new Member's properties to the held one and resolves with the held one.
OkBodyOf(c, result, data) ==
    /\ calls[c].phase = "okbody"
    /\ LET refreshed == result = "json" /\ calls[c].via = "Member.refresh"
       IN  \E defineFields \in (IF refreshed THEN BOOLEAN ELSE {FALSE}) :
               LET returned == ResultOf(calls[c].op, calls[c].args, data)
                   value == IF refreshed
                            THEN [returned EXCEPT !.member = Some(AssignMember(Get(held.member), data.member, defineFields))]
                            ELSE returned
               IN  /\ calls' = [calls EXCEPT ![c] =
                                   IF result = "json"
                                   THEN Settle([@ EXCEPT !.data = data], "return",
                                               [NoOutcome EXCEPT !.kind = "value", !.response = "json",
                                                                 !.value = Some(value)])
                                   ELSE Settle(@, "parse", ForeignError(result))]
                   /\ held' = IF refreshed THEN [held EXCEPT !.member = value.member] ELSE held
    /\ timers' = ClearTimeoutOnExit(timers, c, IF result = "json" THEN "return" ELSE "parse")
    /\ UNCHANGED <<ctorIn, client, probe>>

\* A body as the specifications that do not study the entities draw it
PlainData ==
    [shape |-> "envelope", players |-> <<>>, total |-> 0, page |-> 1, limit |-> 20,
     member |-> [NoPlayerData EXCEPT !.id = "vair_mem_1"]]

OkBody(c, result) == OkBodyOf(c, result, PlainData)

\* A mutation of Timeout: the client has one controller for all its requests
TimeoutShared(c) ==
    /\ c \in timers
    /\ calls' = [d \in CallIds |->
                    IF d \notin timers THEN calls[d]
                    ELSE CASE calls[d].phase \in {"fetching", "okbody"} ->
                                  Settle([calls[d] EXCEPT !.aborted = TRUE], "abort", ForeignError("AbortError"))
                           [] calls[d].phase = "errbody" ->
                                  Settle([calls[d] EXCEPT !.aborted = TRUE], "http",
                                         handleError(calls[d].status, calls[d].retryHdr, "unreadable"))
                           [] OTHER -> [calls[d] EXCEPT !.aborted = TRUE]]
    /\ timers' = {}
    /\ UNCHANGED <<ctorIn, client, held, probe>>

\* The timer of call c fires: controller.abort(). The pending fetch() or
\* response.json() rejects with an AbortError. In request() that rejection
\* leaves through the finally; inside handleError it is caught by the bare
\* catch around response.json(), and the mapped error is thrown.
Timeout(c) ==
    /\ c \in timers
    /\ calls' = [calls EXCEPT ![c] =
                    CASE @.phase \in {"fetching", "okbody"} ->
                             Settle([@ EXCEPT !.aborted = TRUE], "abort", ForeignError("AbortError"))
                      [] @.phase = "errbody" ->
                             Settle([@ EXCEPT !.aborted = TRUE], "http", handleError(@.status, @.retryHdr, "unreadable"))
                      [] OTHER -> [@ EXCEPT !.aborted = TRUE]]
    /\ timers' = ClearTimeoutOnExit(timers \ {c}, c, "abort")
    /\ UNCHANGED <<ctorIn, client, held, probe>>

\* The caller builds an entity itself, with or without the client
NewMember(data, hasClient) ==
    /\ held.member = None
    /\ hasClient => client.state = "ready"
    /\ held' = [held EXCEPT !.member = Some(Member(data, hasClient))]
    /\ UNCHANGED <<ctorIn, client, calls, timers, probe>>

NewResults(data, hasClient, filters) ==
    /\ held.results = None
    /\ hasClient => client.state = "ready"
    /\ held' = [held EXCEPT !.results = Some(SearchResults(data, hasClient, filters))]
    /\ UNCHANGED <<ctorIn, client, calls, timers, probe>>

NewUpdate(data, hasClient) ==
    /\ held.update = None
    /\ hasClient => client.state = "ready"
    /\ held' = [held EXCEPT !.update = Some(RatingUpdate(data, hasClient))]
    /\ UNCHANGED <<ctorIn, client, calls, timers, probe>>

\* A mutation of LocalThrow: the error is one of the library's own
LocalThrowVairified(c, via, origin, message) ==
    /\ calls[c].phase = "idle"
    /\ \A d \in CallIds : d < c => calls[d].phase # "idle"
    /\ calls' = [calls EXCEPT ![c] = Settle([IdleCall EXCEPT !.via = via, !.origin = origin], "precondition",
                                           ErrorValue("VairifiedError", None, message, "undefined"))]
    /\ UNCHANGED <<ctorIn, client, timers, held, probe>>

\* A follow-up method of an entity throws before it calls the client:
\* `throw new Error(message)`
LocalThrow(c, via, origin, message) ==
    /\ calls[c].phase = "idle"
    /\ \A d \in CallIds : d < c => calls[d].phase # "idle"
    /\ calls' = [calls EXCEPT ![c] = Settle([IdleCall EXCEPT !.via = via, !.origin = origin], "precondition",
                                           [ForeignError("Error") EXCEPT !.message = message])]
    /\ UNCHANGED <<ctorIn, client, timers, held, probe>>

\* Member.refresh() of the held member (src/src/models.ts 230-238): its
\* part up to the await; OkBodyOf has the rest
Refresh(c) ==
    /\ IsSome(held.member)
    /\ IF ~Get(held.member).player.client
       THEN LocalThrow(c, "Member.refresh", 0, "Member not connected to client")
       ELSE InvokeVia(c, "getMember", [NoArgs EXCEPT !.id = Get(held.member).player.id], "Member.refresh", 0)

\* RatingUpdate.getMember() of the held update (src/src/models.ts 457-462)
UpdateGetMember(c) ==
    /\ IsSome(held.update)
    /\ IF ~Get(held.update).client
       THEN LocalThrow(c, "RatingUpdate.getMember", 0, "Update not connected to client")
       ELSE InvokeVia(c, "getMember", [NoArgs EXCEPT !.id = Get(held.update).id], "RatingUpdate.getMember", 0)

\* Whether there is a SearchResults at origin: the held one (0), or what
\* search call o resolved with
HasResultsAt(o) ==
    IF o = 0 THEN IsSome(held.results)
    ELSE calls[o].op = "search" /\ calls[o].phase = "done" /\ calls[o].outcome.kind = "value"

ResultsAt(o) == IF o = 0 THEN Get(held.results) ELSE Get(Get(calls[o].outcome.value).results)

\* SearchResults.nextPage() of the results at origin o (src/src/models.ts 523-536)
NextPage(o, c) ==
    /\ HasResultsAt(o)
    /\ IF ~ResultsAt(o).client
       THEN LocalThrow(c, "SearchResults.nextPage", o, "Results not connected to client")
       ELSE IF ~hasMore(ResultsAt(o))
       THEN LocalThrow(c, "SearchResults.nextPage", o, "No more pages")
       ELSE InvokeVia(c, "search", [NoArgs EXCEPT !.filters = NextPageFilters(ResultsAt(o))],
                      "SearchResults.nextPage", o)

\* The caller builds a SearchResults from data and reads hasMore and pages
ReadResults(data) ==
    /\ probe' = [class |-> "SearchResults",
                 object |-> SearchResults(data, FALSE, None),
                 hasMore |-> hasMore(SearchResults(data, FALSE, None)),
                 pages |-> pages(SearchResults(data, FALSE, None))]
    /\ UNCHANGED <<ctorIn, client, calls, timers, held>>

\* The names of the convenience getters of RatingSplits
SplitNames == {"open", "gender", "mixed", "recreational", "singles"}

\* The caller builds a RatingSplits from data and reads its getters; none
\* of them writes to it
ReadSplits(data) ==
    /\ probe' = [class |-> "RatingSplits",
                 data |-> data,
                 object |-> RatingSplits(Some(data)),
                 getters |-> [name \in SplitNames |-> SplitsGetter(RatingSplits(Some(data)), name)],
                 best |-> SplitsBest(RatingSplits(Some(data)))]
    /\ UNCHANGED <<ctorIn, client, calls, timers, held>>

\* The caller builds a Player from data and reads verifiedRating and name
ReadPlayer(data) ==
    /\ probe' = [class |-> "Player",
                 data |-> data,
                 object |-> Player(data, FALSE),
                 verifiedRating |-> verifiedRating(Player(data, FALSE)),
                 name |-> PlayerName(Player(data, FALSE))]
    /\ UNCHANGED <<ctorIn, client, calls, timers, held>>

\* The caller builds a Member from data and reads its fields
ReadMember(data) ==
    /\ probe' = [class |-> "Member", data |-> data, object |-> Member(data, FALSE)]
    /\ UNCHANGED <<ctorIn, client, calls, timers, held>>

\* The caller builds a RatingUpdate from data and reads its fields
ReadUpdate(data) ==
    /\ probe' = [class |-> "RatingUpdate", data |-> data, object |-> RatingUpdate(data, FALSE)]
    /\ UNCHANGED <<ctorIn, client, calls, timers, held>>

\* The caller builds a MatchResult from data and reads ok
ReadMatchResult(data) ==
    /\ probe' = [class |-> "MatchResult", data |-> data, object |-> MatchResult(data), ok |-> ok(MatchResult(data))]
    /\ UNCHANGED <<ctorIn, client, calls, timers, held>>

\* The caller builds a Match from data, reads format and winner and calls toJSON
ReadMatch(data) ==
    /\ probe' = [class |-> "Match",
                 object |-> Match(data),
                 format |-> format(Match(data)),
                 winner |-> winner(Match(data)),
                 json |-> toJSON(Match(data))]
    /\ UNCHANGED <<ctorIn, client, calls, timers, held>>

----------------------------------------------------------------------------
(* Inputs *)

\* Constructor inputs of the specifications that study the executor
PlainOptions == {[NoOptions EXCEPT !.apiKey = k] : k \in {None, Some("vair_pk_opt")}}

PlainEnvirons == {NoEnviron}

\* What a server may answer
Statuses == {200, 201, 400, 401, 403, 404, 429, 500, 503}

\* Retry-After as the executor's specifications draw it
PlainHeaders == {None, Some(<<"6", "0">>)}

HeadersFor(status, headers) == IF status = 429 THEN headers ELSE {None}

ErrBodies == {"json_message", "json_plain", "unreadable"}

OkBodies == {"json", "SyntaxError", "TypeError"}

DoublesMatch == Match(MatchInput(<<"p1", "p2">>, <<"p3", "p4">>, <<<<11, 9>>, <<11, 7>>>>))

TeamlessMatch == Match(MatchInput(<<"p1">>, <<>>, <<>>))

\* Arguments as the executor's specifications draw them
PlainArgs(op) ==
    CASE op = "startOAuth" -> {NoArgs, [NoArgs EXCEPT !.scopes = Some(<<"rating:read", "bogus">>)]}
      [] op = "submitMatch" -> {[NoArgs EXCEPT !.matches = <<m>>] : m \in {DoublesMatch, TeamlessMatch}}
      [] op = "submitMatches" -> {[NoArgs EXCEPT !.matches = ms] : ms \in {<<DoublesMatch, DoublesMatch>>, <<DoublesMatch, TeamlessMatch>>}}
      [] OTHER -> {NoArgs}

ConstructPlain == client.state = "none" /\ \E o \in PlainOptions, e \in PlainEnvirons : Construct(o, e)

Respond(c, statuses, headers) == \E st \in statuses : \E h \in HeadersFor(st, headers) : RecvHeaders(c, st, h)

ReadErrBody(c) == \E b \in ErrBodies : ErrBody(c, b)

ReadOkBody(c) == \E r \in OkBodies : OkBody(c, r)

----------------------------------------------------------------------------
(* Spec: one client, calls made concurrently *)

ConcurrentOps == {"getMember", "submitMatches", "startOAuth"}

ConcurrentStatuses == {200, 404, 429, 500}

InvokeConcurrent == \E c \in CallIds, op \in ConcurrentOps : \E a \in PlainArgs(op) : Invoke(c, op, a)

RespondConcurrent == \E c \in CallIds : Respond(c, ConcurrentStatuses, PlainHeaders)

Next ==
    \/ ConstructPlain
    \/ InvokeConcurrent
    \/ RespondConcurrent
    \/ \E c \in CallIds : TransportFail(c)
    \/ \E c \in CallIds : ReadErrBody(c)
    \/ \E c \in CallIds : ReadOkBody(c)
    \/ \E c \in CallIds : Timeout(c)

Spec == Init /\ [][Next]_vars

----------------------------------------------------------------------------
(* SpecFacade: one call of any facade method, any answer *)

InvokeAny == \E op \in Ops : \E a \in PlainArgs(op) : Invoke(1, op, a)

NextFacade ==
    \/ ConstructPlain
    \/ InvokeAny
    \/ Respond(1, Statuses, PlainHeaders)
    \/ TransportFail(1)
    \/ ReadErrBody(1)
    \/ ReadOkBody(1)
    \/ Timeout(1)

SpecFacade == Init /\ [][NextFacade]_vars

----------------------------------------------------------------------------
(* SpecRetry: a rate-limited call, any Retry-After header *)

MaxHeaderLen == 3

HeaderChars == {"6", "0", "a", "-", " "}

RECURSIVE StringsUpTo(_, _)
\* The strings over chars of length at most n
StringsUpTo(chars, n) ==
    IF n = 0 THEN {<<>>}
    ELSE LET shorter == StringsUpTo(chars, n - 1)
         IN  shorter \cup {Append(s, ch) : s \in shorter, ch \in chars}

\* Headers.get() returns a value without leading or trailing white space
HeaderValues ==
    {s \in StringsUpTo(HeaderChars, MaxHeaderLen) : s = <<>> \/ (s[1] # " " /\ s[Len(s)] # " ")}

AnyHeaders == {None} \cup {Some(s) : s \in HeaderValues}

NextRetry ==
    \/ ConstructPlain
    \/ Invoke(1, "getMember", NoArgs)
    \/ Respond(1, {200, 429}, AnyHeaders)
    \/ TransportFail(1)
    \/ ReadErrBody(1)
    \/ ReadOkBody(1)
    \/ Timeout(1)

SpecRetry == Init /\ [][NextRetry]_vars

----------------------------------------------------------------------------
(* SpecOAuth: one startOAuth call, any scope list *)

MaxScopes == 3

ScopeUniverse == {"profile:read", "rating:read", "match:submit", "bogus", "constructor"}

ScopeArgs == {NoArgs} \cup {[NoArgs EXCEPT !.scopes = Some(s)] : s \in StringsUpTo(ScopeUniverse, MaxScopes)}

InvokeOAuth == \E a \in ScopeArgs : Invoke(1, "startOAuth", a)

NextOAuth ==
    \/ ConstructPlain
    \/ InvokeOAuth
    \/ Respond(1, ConcurrentStatuses, PlainHeaders)
    \/ TransportFail(1)
    \/ ReadErrBody(1)
    \/ ReadOkBody(1)
    \/ Timeout(1)

SpecOAuth == Init /\ [][NextOAuth]_vars

----------------------------------------------------------------------------
(* SpecCtor: any constructor arguments and environment, then a request *)

ApiKeyOptions == {None, Some(""), Some("vair_pk_opt")}

EnvOptions == {None} \cup {Some(e) : e \in EnvNames}

BaseUrlOptions == {None, Some(<<>>), Some(<<"https:", "/", "/", "h">>), Some(<<"https:", "/", "/", "h", "/">>), Some(<<"/">>)}

TimeoutOptions == {None, Some(0), Some(5000)}

AnyOptions ==
    {[apiKey |-> k, env |-> e, baseUrl |-> b, timeout |-> t] :
        k \in ApiKeyOptions, e \in EnvOptions, b \in BaseUrlOptions, t \in TimeoutOptions}

EnvVarValues == {None, Some(""), Some("staging"), Some("local"), Some("production"), Some("bogus"), Some("constructor")}

AnyEnvirons ==
    {[hasProcess |-> p, VAIRIFIED_API_KEY |-> k, VAIRIFIED_ENV |-> v] :
        p \in BOOLEAN, k \in {None, Some(""), Some("vair_pk_env")}, v \in EnvVarValues}

ConstructAny == client.state = "none" /\ \E e \in AnyEnvirons, o \in AnyOptions : Construct(o, e)

NextCtor ==
    \/ ConstructAny
    \/ Invoke(1, "getMember", NoArgs)
    \/ Respond(1, {200, 500}, PlainHeaders)
    \/ TransportFail(1)
    \/ ReadErrBody(1)
    \/ ReadOkBody(1)
    \/ Timeout(1)

SpecCtor == Init /\ [][NextCtor]_vars

----------------------------------------------------------------------------
(* SpecSearch: one search call, any filters, any answer *)

MaxPlayers == 2

AgeInputs == {None, Some(0), Some(30)}

AgeMinInputs == {None, Some(0), Some(18)}

AgeMaxInputs == {None, Some(0), Some(65)}

PageInputs == {None, Some(0), Some(1), Some(2), Some(3)}

LimitInputs == {None, Some(0), Some(10), Some(20)}

\* Filters that differ in the age and pagination properties
PagedFilters ==
    {[NoFilters EXCEPT !.age = a, !.ageMin = lo, !.ageMax = hi, !.page = p, !.limit = l] :
        a \in AgeInputs, lo \in AgeMinInputs, hi \in AgeMaxInputs, p \in PageInputs, l \in LimitInputs}

\* Filters that differ in the other properties
NamedFilters ==
    {[NoFilters EXCEPT !.name = n, !.city = n, !.state = n, !.country = n, !.zipCode = n, !.gender = n,
                       !.ratingMin = r, !.ratingMax = r, !.vairifiedOnly = v, !.sortBy = n, !.sortOrder = o] :
        n \in {None, Some(""), Some("x")}, r \in {None, Some(0), Some(4)},
        v \in {None, Some(FALSE), Some(TRUE)}, o \in {None, Some("asc")}}

SearchFilterInputs == PagedFilters \cup NamedFilters

\* PlayerSearchData of the player with this id
SearchPlayer(id) == [NoPlayerData EXCEPT !.id = id, !.displayName = Some("Ann B.")]

PlayerLists == {[i \in 1..Len(ids) |-> SearchPlayer(ids[i])] : ids \in StringsUpTo({"p1", "p2"}, MaxPlayers)}

SearchBodies ==
    {ArrayData(ps) : ps \in PlayerLists}
    \cup {EnvelopeData(ps, t, p, l) : ps \in {<<>>, <<SearchPlayer("p2"), SearchPlayer("p1")>>},
                                      t \in {0, 2, 45}, p \in {1, 2, 3}, l \in {0, 20}}

InvokeSearch == \E f \in SearchFilterInputs : Invoke(1, "search", [NoArgs EXCEPT !.filters = f])

ReadSearchBody(c) ==
    \/ \E d \in SearchBodies : OkBodyOf(c, "json", d)
    \/ \E r \in OkBodies \ {"json"} : OkBodyOf(c, r, NoData)

NextSearch ==
    \/ ConstructPlain
    \/ InvokeSearch
    \/ Respond(1, {200, 500}, PlainHeaders)
    \/ TransportFail(1)
    \/ ReadErrBody(1)
    \/ ReadSearchBody(1)
    \/ Timeout(1)

SpecSearch == Init /\ [][NextSearch]_vars

----------------------------------------------------------------------------
(* SpecPages: a search, then nextPage on what it or an earlier nextPage     *)
(* resolved with, or on a SearchResults the caller built                    *)

\* The filters of the first search
FirstFilters ==
    {NoFilters,
     [NoFilters EXCEPT !.name = Some("x"), !.age = Some(30), !.limit = Some(1)],
     [NoFilters EXCEPT !.page = Some(2), !.limit = Some(1)]}

\* What the server answers a search with: a bare array, or an envelope
\* whose page need not be the requested one
PageBodies ==
    {ArrayData(<<>>), ArrayData(<<SearchPlayer("p1")>>)}
    \cup {EnvelopeData(<<SearchPlayer("p1")>>, t, p, l) : t \in {0, 3, 45}, p \in {1, 2}, l \in {1, 20}}

\* A SearchResults built by the caller with the client
NewPagedResults ==
    /\ held = NoHeld
    /\ \E t \in {3, 45}, f \in {None, Some([NoFilters EXCEPT !.name = Some("x")])} :
           NewResults(EnvelopeData(<<SearchPlayer("p1")>>, t, 2, 20), TRUE, f)

ReadPageBody(c) ==
    \/ \E d \in PageBodies : OkBodyOf(c, "json", d)
    \/ \E r \in OkBodies \ {"json"} : OkBodyOf(c, r, NoData)

NextPages ==
    \/ ConstructPlain
    \/ \E f \in FirstFilters : Invoke(1, "search", [NoArgs EXCEPT !.filters = f])
    \/ NewPagedResults
    \/ \E o \in 0..MaxCalls, c \in CallIds : NextPage(o, c)
    \/ \E c \in CallIds : Respond(c, {200, 500}, {None})
    \/ \E c \in CallIds : TransportFail(c)
    \/ \E c \in CallIds : ErrBody(c, "json_message")
    \/ \E c \in CallIds : ReadPageBody(c)
    \/ \E c \in CallIds : Timeout(c)

SpecPages == Init /\ [][NextPages]_vars

----------------------------------------------------------------------------
(* SpecLazy: one entity built by the caller, with or without the client,    *)
(* and its follow-up method                                                 *)

MemberInputs ==
    {[NoPlayerData EXCEPT !.id = "vair_mem_1", !.firstName = Some("Ann"), !.lastName = Some("Bee"), !.rating = Some(4)],
     [NoPlayerData EXCEPT !.id = "vair_mem_2", !.displayName = Some("Cy D.")]}

\* What the server answers getMember with
MemberBodies ==
    {MemberDataBody([NoPlayerData EXCEPT !.id = "vair_mem_1", !.firstName = Some("Anna"), !.rating = Some(5)]),
     MemberDataBody([NoPlayerData EXCEPT !.id = "vair_mem_1", !.displayName = Some("Ann B.")])}

UpdateInputs == {[NoUpdateData EXCEPT !.id = "vair_mem_1", !.newRating = Some(4)]}

ResultsInputs ==
    {EnvelopeData(<<SearchPlayer("p1")>>, 45, 2, 20), EnvelopeData(<<>>, 0, 1, 20)}

NewEntity ==
    /\ held = NoHeld
    /\ \E hasClient \in BOOLEAN :
           \/ \E d \in MemberInputs : NewMember(d, hasClient)
           \/ \E d \in UpdateInputs : NewUpdate(d, hasClient)
           \/ \E d \in ResultsInputs, f \in {None, Some(NoFilters)} : NewResults(d, hasClient, f)

ReadLazyBody(c) ==
    \/ \E d \in MemberBodies \cup {EnvelopeData(<<>>, 45, 3, 20)} : OkBodyOf(c, "json", d)
    \/ \E r \in OkBodies \ {"json"} : OkBodyOf(c, r, NoData)

NextLazy ==
    \/ ConstructPlain
    \/ NewEntity
    \/ \E c \in CallIds : Refresh(c)
    \/ \E c \in CallIds : UpdateGetMember(c)
    \/ \E c \in CallIds : NextPage(0, c)
    \/ \E c \in CallIds : Respond(c, {200, 404}, {None})
    \/ \E c \in CallIds : TransportFail(c)
    \/ \E c \in CallIds : ErrBody(c, "json_message")
    \/ \E c \in CallIds : ReadLazyBody(c)
    \/ \E c \in CallIds : Timeout(c)

SpecLazy == Init /\ [][NextLazy]_vars

----------------------------------------------------------------------------
(* SpecModels: the entities' getters, read on entities built from any data *)

MaxTotal == 45

MaxSplits == 2

MaxGames == 6

PagingInputs ==
    {EnvelopeData(<<>>, t, p, l) : t \in 0..MaxTotal, p \in 0..3, l \in {0, 1, 7, 20}}

SplitKeys == {"open", "VO", "mixed", "VM", "50+"}

SplitValues ==
    {SplitNumber(Num(0)), SplitNumber(Num(4)), SplitNumber(Num(0 - 2)), SplitNumber(NaN),
     SplitObject(Num(5), "x"), SplitText(<<"3">>, "x"), SplitText(<<"a">>, "x")}

\* RatingSplitsData: the entries of an object, so no key comes twice
SplitsInputs ==
    {[i \in 1..Len(keys) |-> [key |-> keys[i], value |-> values[i]]] :
        <<keys, values>> \in
            {kv \in StringsUpTo(SplitKeys, MaxSplits) \X StringsUpTo(SplitValues, MaxSplits) :
                /\ Len(kv[1]) = Len(kv[2])
                /\ \A i, j \in 1..Len(kv[1]) : kv[1][i] = kv[1][j] => i = j}}

\* Member data and search data with rating splits
RatedPlayerInputs ==
    {[NoPlayerData EXCEPT !.id = "vair_mem_1", !.displayName = n, !.ratingSplits = Some(d)] :
        n \in {None, Some("Ann B.")},
        d \in {e \in SplitsInputs : \A i \in 1..Len(e) : e[i].key \in {"open", "VO"}}}

\* Member data and search data that differ in their names and optional properties
NamedPlayerInputs ==
    {[NoPlayerData EXCEPT !.id = "vair_mem_1", !.displayName = d, !.firstName = f, !.lastName = l,
                          !.rating = r, !.isVairified = v, !.isConnected = v, !.grantedScopes = g] :
        d \in {None, Some(""), Some("Ann B.")}, f \in {None, Some(""), Some("Ann")},
        l \in {None, Some(""), Some("Bee")}, r \in {None, Some(4)}, v \in {None, Some(TRUE)},
        g \in {None, Some(<<"rating:read">>)}}

UpdateDataInputs ==
    {[NoUpdateData EXCEPT !.id = "vair_mem_1", !.previousRating = a, !.newRating = b] :
        a \in {None, Some(3)}, b \in {None, Some(4)}}

MatchResultInputs ==
    {MatchResultData(s, d, e) : s \in BOOLEAN, d \in {None, Some(FALSE), Some(TRUE)},
                                e \in {None, Some(<<>>), Some(<<"bad score">>)}}

Games == {<<11, 9>>, <<9, 11>>, <<7, 7>>}

TeamInputs == {<<>>, <<"p1">>, <<"p1", "p2">>, <<"p1", "">>, <<"p1", "p2", "p3">>}

MatchInputs ==
    {MatchInput(t1, t2, sc) : t1 \in TeamInputs, t2 \in {<<>>, <<"p3">>, <<"p3", "p4">>},
                              sc \in StringsUpTo(Games, MaxGames)}

\* One entity is read in a behaviour
ReadAnyResults == probe.class = "none" /\ \E d \in PagingInputs : ReadResults(d)

ReadAnySplits == probe.class = "none" /\ \E d \in SplitsInputs : ReadSplits(d)

ReadAnyPlayer == probe.class = "none" /\ \E d \in RatedPlayerInputs \cup NamedPlayerInputs : ReadPlayer(d)

ReadAnyMember == probe.class = "none" /\ \E d \in NamedPlayerInputs : ReadMember(d)

ReadAnyUpdate == probe.class = "none" /\ \E d \in UpdateDataInputs : ReadUpdate(d)

ReadAnyMatchResult == probe.class = "none" /\ \E d \in MatchResultInputs : ReadMatchResult(d)

ReadAnyMatch == probe.class = "none" /\ \E d \in MatchInputs : ReadMatch(d)

NextModels ==
    \/ ReadAnyResults
    \/ ReadAnySplits
    \/ ReadAnyPlayer
    \/ ReadAnyMember
    \/ ReadAnyUpdate
    \/ ReadAnyMatchResult
    \/ ReadAnyMatch

SpecModels == Init /\ [][NextModels]_vars

-----------------------------------------------------------------------------
(* SpecBatch: one submitMatch or submitMatches call, any batch *)

MaxBatch == 3

SinglesMatch == Match(MatchInput(<<"p5">>, <<"p6">>, <<<<11, 4>>>>))

NamelessMatch == Match(MatchInput(<<"", "p2">>, <<"p3">>, <<<<11, 9>>>>))

BatchMatches == {DoublesMatch, SinglesMatch, TeamlessMatch, NamelessMatch}

Batches == StringsUpTo(BatchMatches, MaxBatch)

InvokeBatch ==
    \/ \E ms \in Batches : Invoke(1, "submitMatches", [NoArgs EXCEPT !.matches = ms])
    \/ \E m \in BatchMatches : Invoke(1, "submitMatch", [NoArgs EXCEPT !.matches = <<m>>])

NextBatch ==
    \/ ConstructPlain
    \/ InvokeBatch
    \/ Respond(1, {200, 400}, {None})
    \/ TransportFail(1)
    \/ ReadErrBody(1)
    \/ ReadOkBody(1)
    \/ Timeout(1)

SpecBatch == Init /\ [][NextBatch]_vars

-----------------------------------------------------------------------------
(* SpecLoop: a search, then nextPage on what it resolved with, against a    *)
(* server that echoes the requested page and limit and has a fixed total    *)

MaxLoopTotal == 3

LoopFilters ==
    {[NoFilters EXCEPT !.page = p, !.limit = l] :
        p \in {None, Some(1), Some(2), Some(3)}, l \in {None, Some(0), Some(1), Some(2)}}

\* The total the server reports to call c: any for a first search, the same
\* as before for a search made by nextPage
LoopTotals(c) ==
    IF calls[c].via = "SearchResults.nextPage" THEN {ResultsAt(calls[c].origin).total} ELSE 0..MaxLoopTotal

\* The 2xx body of call c is read: the envelope echoes the request's page and limit
EchoBody(c) ==
    \E t \in LoopTotals(c) :
        OkBodyOf(c, "json", EnvelopeData(<<>>, t, PageOf(calls[c].args.filters), LimitOf(calls[c].args.filters)))

NextLoop ==
    \/ ConstructPlain
    \/ \E f \in LoopFilters : Invoke(1, "search", [NoArgs EXCEPT !.filters = f])
    \/ \E o \in CallIds, c \in CallIds : NextPage(o, c)
    \/ \E c \in CallIds : Respond(c, {200}, {None})
    \/ \E c \in CallIds : EchoBody(c)

SpecLoop == Init /\ [][NextLoop]_vars

----------------------------------------------------------------------------
(* Claims *)

Range(seq) == {seq[i] : i \in 1..Len(seq)}

\* The call has been answered with a non-2xx status
AnsweredNon2xx(call) == call.status # 0 /\ ~(call.status >= 200 /\ call.status <= 299)

\* The error class section 4.1 of the specification assigns to a status
KindByStatus(status) ==
    CASE status = 401 -> "AuthenticationError"
      [] status = 404 -> "NotFoundError"
      [] status = 429 -> "RateLimitError"
      [] status = 400 -> "ValidationError"
      [] OTHER -> "VairifiedError"

IsNumeric(str) == str # <<>> /\ \A i \in 1..Len(str) : str[i] \in Digits

\* C2: a RateLimitError's retryAfter is the number in the Retry-After header
\* when the header is numeric, and undefined when the header is missing or
\* not numeric.
C2_RetryAfter ==
    \A c \in CallIds :
        (calls[c].phase = "done" /\ calls[c].outcome.kind = "RateLimitError") =>
            IF IsSome(calls[c].retryHdr) /\ IsNumeric(Get(calls[c].retryHdr))
            THEN calls[c].outcome.retryAfter = Some(Num(DecimalValue(Get(calls[c].retryHdr))))
            ELSE calls[c].outcome.retryAfter = None

\* C3: a timer is armed only for a call that is in flight: once a call has
\* settled (return, HTTP error, abort, transport failure, parse failure)
\* its timer is no longer armed.
C3_TimerReleased ==
    \A c \in CallIds : c \in timers => InFlight(calls[c])

C3_Witness ==
    \E c, d \in CallIds :
        /\ calls[c].phase = "done" /\ calls[c].exit = "http" /\ ~calls[c].aborted /\ c \notin timers
        /\ calls[d].phase = "errbody" /\ d \in timers

\* C4: a call whose timer fired before the exchange completed has rejected
\* with an error that is not of the HTTP taxonomy and has no status code.
C4_AbortIsNotHttpError ==
    \A c \in CallIds :
        calls[c].aborted =>
            /\ calls[c].phase = "done"
            /\ calls[c].outcome.kind \notin Taxonomy \cup {"value"}
            /\ calls[c].outcome.statusCode = None

\* C5: an invocation dispatches at most one HTTP request, whatever the
\* answer, and exactly one unless it failed its local precondition.
C5_SingleAttempt ==
    \A c \in CallIds :
        /\ calls[c].sent <= 1
        /\ calls[c].exit = "precondition" => calls[c].sent = 0
        /\ (calls[c].phase # "idle" /\ calls[c].exit # "precondition") => calls[c].sent = 1

C5_Witness ==
    \E c \in CallIds :
        /\ calls[c].phase = "done" /\ calls[c].exit = "http"
        /\ calls[c].status = 429 /\ calls[c].sent = 1

\* C6: an OAuth operation that fails because the server answered with a
\* non-2xx status rejects with an OAuthError.
C6_OAuthFailureIsOAuthError ==
    \A c \in CallIds :
        (calls[c].phase = "done" /\ calls[c].op \in OAuthOps /\ AnsweredNon2xx(calls[c])) =>
            calls[c].outcome.kind = "OAuthError"

\* C7: startOAuth with a scope that is not a key of the scope registry has
\* failed with OAuthError('invalid_scope') and has dispatched no request.
C7_UnknownScopeRejected ==
    \A c \in CallIds :
        (calls[c].op = "startOAuth" /\ Range(ScopesArg(calls[c].args)) \ ScopeKeys # {}) =>
            /\ calls[c].phase = "done"
            /\ calls[c].outcome.kind = "OAuthError"
            /\ calls[c].outcome.errorCode = Some("invalid_scope")
            /\ calls[c].sent = 0

\* C8: the scope list of a dispatched authorize request contains
\* profile:read and every requested scope, and no scope twice.
C8_ScopesTransmitted ==
    \A c \in CallIds :
        (calls[c].op = "startOAuth" /\ calls[c].sent > 0) =>
            LET sentScopes == Split(Get(calls[c].req.scope))
            IN  /\ "profile:read" \in Range(sentScopes)
                /\ Range(ScopesArg(calls[c].args)) \subseteq Range(sentScopes)
                /\ \A i, j \in 1..Len(sentScopes) : sentScopes[i] = sentScopes[j] => i = j

C8_Witness ==
    \E c \in CallIds :
        /\ calls[c].sent = 1
        /\ calls[c].args.scopes = Some(<<"rating:read", "match:submit", "rating:read">>)
        /\ calls[c].req.scope = Some(<<"rating:read", ",", "match:submit", ",", "profile:read">>)

\* No API key reaches the constructor: the option is absent or empty and
\* the environment offers no VAIRIFIED_API_KEY
NoKeyGiven ==
    /\ ctorIn.called
    /\ ctorIn.options.apiKey \in {None, Some("")}
    /\ ~ctorIn.environ.hasProcess \/ ctorIn.environ.VAIRIFIED_API_KEY \in {None, Some("")}

\* C9: constructing without an API key throws: there is no client, and no
\* request is ever dispatched.
C9_NoKeyNoClient ==
    NoKeyGiven =>
        /\ client.state = "threw"
        /\ \A c \in CallIds : calls[c].phase = "idle" /\ calls[c].sent = 0

C9_Witness ==
    /\ NoKeyGiven
    /\ ctorIn.options.apiKey = Some("")
    /\ ctorIn.environ.hasProcess
    /\ client.state = "threw"

\* The preset URLs as the claim names them
PresetUrl(name) ==
    CASE name = "production" -> <<"https:", "/", "/", "api-next.vairified.com", "/", "api", "/", "v1">>
      [] name = "staging" -> <<"https:", "/", "/", "api-staging.vairified.com", "/", "api", "/", "v1">>
      [] name = "local" -> <<"http:", "/", "/", "localhost:3001", "/", "api", "/", "v1">>

\* The value of VAIRIFIED_ENV the process sees, if any
EnvVarSeen ==
    IF ctorIn.environ.hasProcess /\ IsSome(ctorIn.environ.VAIRIFIED_ENV)
    THEN Get(ctorIn.environ.VAIRIFIED_ENV) ELSE ""

\* The base URL C10 states for the constructor's inputs
ClaimedBaseUrl ==
    IF ctorIn.options.baseUrl \notin {None, Some(<<>>)} THEN Get(ctorIn.options.baseUrl)
    ELSE IF IsSome(ctorIn.options.env) THEN PresetUrl(Get(ctorIn.options.env))
    ELSE IF EnvVarSeen \in EnvNames THEN PresetUrl(EnvVarSeen)
    ELSE PresetUrl("production")

\* C10: the base URL of the client, and of every request it sends, is the
\* baseUrl override when given, else the env option's preset, else the
\* preset VAIRIFIED_ENV names when it names one, else production.
C10_BaseUrlPrecedence ==
    client.state = "ready" =>
        /\ client.baseUrl = ClaimedBaseUrl
        /\ \A c \in CallIds : calls[c].sent > 0 => calls[c].req.url = Append(ClaimedBaseUrl, PathOf(calls[c].op))

\* The text of the query parameter key, None when the request has none
QueryText(query, key) ==
    IF \E i \in 1..Len(query) : query[i].key = key
    THEN Some(query[CHOOSE i \in 1..Len(query) : query[i].key = key].text)
    ELSE None

\* How many times the query carries the parameter key
QueryCount(query, key) == Cardinality({i \in 1..Len(query) : query[i].key = key})

\* The query parameter key is present and reads as the integer n
QueryHasInt(query, key, n) ==
    /\ QueryCount(query, key) = 1
    /\ ParseInt(Get(QueryText(query, key))) = Num(n)

\* The query parameter key is present and is the string str
QueryHasStr(query, key, str) ==
    /\ QueryCount(query, key) = 1
    /\ Get(QueryText(query, key)) = <<str>>

\* Call c is a search whose request has been sent
SearchSent(c) == calls[c].op = "search" /\ calls[c].sent > 0

\* C11: for every presence/absence combination of age, ageMin and ageMax,
\* the search request carries at most one age filter mode: 'exact' with
\* age1 = age whenever age is present (even if ageMin or ageMax are present
\* too); otherwise 'range' with age1 = ageMin and age2 = ageMax when both
\* are present; otherwise 'above' with age1 = ageMin; otherwise 'below'
\* with age1 = ageMax; and no age parameter when none is present.
C11_AgeFilterMode ==
    \A c \in CallIds : SearchSent(c) =>
        LET f == calls[c].args.filters
            q == calls[c].req.query
        IN  /\ QueryCount(q, "ageFilterType") <= 1
            /\ IsSome(f.age) =>
                   QueryHasStr(q, "ageFilterType", "exact") /\ QueryHasInt(q, "age1", Get(f.age))
            /\ ~IsSome(f.age) /\ IsSome(f.ageMin) /\ IsSome(f.ageMax) =>
                   /\ QueryHasStr(q, "ageFilterType", "range")
                   /\ QueryHasInt(q, "age1", Get(f.ageMin))
                   /\ QueryHasInt(q, "age2", Get(f.ageMax))
            /\ ~IsSome(f.age) /\ IsSome(f.ageMin) /\ ~IsSome(f.ageMax) =>
                   QueryHasStr(q, "ageFilterType", "above") /\ QueryHasInt(q, "age1", Get(f.ageMin))
            /\ ~IsSome(f.age) /\ ~IsSome(f.ageMin) /\ IsSome(f.ageMax) =>
                   QueryHasStr(q, "ageFilterType", "below") /\ QueryHasInt(q, "age1", Get(f.ageMax))
            /\ ~IsSome(f.age) /\ ~IsSome(f.ageMin) /\ ~IsSome(f.ageMax) =>
                   /\ QueryCount(q, "ageFilterType") = 0
                   /\ QueryCount(q, "age1") = 0
                   /\ QueryCount(q, "age2") = 0

\* A search with all three age filters has been sent
C11_Witness ==
    \E c \in CallIds :
        /\ SearchSent(c)
        /\ calls[c].args.filters.age = Some(30)
        /\ calls[c].args.filters.ageMin = Some(18)
        /\ calls[c].args.filters.ageMax = Some(65)
        /\ QueryHasStr(calls[c].req.query, "ageFilterType", "exact")

\* C12: the search request carries offset = (page - 1) * limit when
\* page > 1, with limit defaulting to 20 when omitted, and no offset when
\* page is 1 or omitted; the limit parameter is always sent.
C12_Offset ==
    \A c \in CallIds : SearchSent(c) =>
        LET f == calls[c].args.filters
            q == calls[c].req.query
            limit == IF f.limit = None THEN 20 ELSE Get(f.limit)
        IN  /\ QueryHasInt(q, "limit", limit)
            /\ (f.page # None /\ Get(f.page) > 1) => QueryHasInt(q, "offset", (Get(f.page) - 1) * limit)
            /\ (f.page = None \/ f.page = Some(1)) => QueryCount(q, "offset") = 0

\* A search for page 3 with the default limit has been sent
C12_Witness ==
    \E c \in CallIds :
        /\ SearchSent(c)
        /\ calls[c].args.filters.page = Some(3)
        /\ calls[c].args.filters.limit = None
        /\ QueryHasInt(calls[c].req.query, "offset", 40)

\* Call c is a search that has resolved with a SearchResults
SearchResolved(c) ==
    calls[c].op = "search" /\ calls[c].phase = "done" /\ calls[c].outcome.kind = "value"

\* The SearchResults search call c resolved with
ResultsOf(c) == Get(Get(calls[c].outcome.value).results)

\* C13: when the search response is a bare array, the SearchResults holds
\* the array's elements in order as its players, page and limit are the
\* requested page (default 1) and limit (default 20), and total is the
\* array's length; when the response is an envelope, page, limit and total
\* are the envelope's.
C13_BareArrayNormalized ==
    \A c \in CallIds : SearchResolved(c) =>
        LET f == calls[c].args.filters
            d == calls[c].data
            r == ResultsOf(c)
        IN  /\ d.shape = "array" =>
                   /\ Len(r.players) = Len(d.players)
                   /\ \A i \in 1..Len(d.players) : r.players[i].id = d.players[i].id
                   /\ r.page = (IF f.page = None THEN 1 ELSE Get(f.page))
                   /\ r.limit = (IF f.limit = None THEN 20 ELSE Get(f.limit))
                   /\ r.total = Len(d.players)
            /\ d.shape = "envelope" =>
                   r.page = d.page /\ r.limit = d.limit /\ r.total = d.total

\* A search for page 2 with limit 10 was answered with a bare array of two players
C13_Witness ==
    \E c \in CallIds :
        /\ SearchResolved(c)
        /\ calls[c].data.shape = "array"
        /\ Len(calls[c].data.players) = 2
        /\ calls[c].data.players[1].id # calls[c].data.players[2].id
        /\ calls[c].args.filters.page = Some(2)
        /\ calls[c].args.filters.limit = Some(10)
        /\ ResultsOf(c).total = 2

\* The follow-up methods of the entities
LazyVias == {"Member.refresh", "SearchResults.nextPage", "RatingUpdate.getMember"}

\* Call c starts in this step, made by the follow-up method via of the entity at o
StartsVia(c, via, o) ==
    /\ calls[c].phase = "idle"
    /\ calls'[c].phase # "idle"
    /\ calls'[c].via = via
    /\ calls'[c].origin = o

\* The filters the SearchResults at o were searched with
FiltersAt(o) ==
    IF o = 0 THEN (IF Get(held.results).filters = None THEN NoFilters ELSE Get(Get(held.results).filters))
    ELSE calls[o].args.filters

\* C15: nextPage on a SearchResults that has a client and hasMore issues
\* exactly one search, whose filters are those that produced the current
\* results, unchanged except that page is the current results' page + 1;
\* the current SearchResults is left unchanged (the next page is a new
\* instance, where the new call resolves).
C15_NextPageRequest ==
    [][\A o \in 0..MaxCalls, c \in CallIds :
          (/\ StartsVia(c, "SearchResults.nextPage", o)
           /\ ResultsAt(o).client
           /\ ResultsAt(o).page * ResultsAt(o).limit < ResultsAt(o).total)
          => /\ calls'[c].op = "search"
             /\ calls'[c].phase = "fetching"
             /\ calls'[c].sent = 1
             /\ \A d \in CallIds \ {c} : calls'[d] = calls[d]
             /\ held' = held
             /\ calls'[c].args.filters = [FiltersAt(o) EXCEPT !.page = Some(ResultsAt(o).page + 1)]
             /\ QueryHasInt(calls'[c].req.query, "limit", LimitOf(FiltersAt(o)))]_vars

\* nextPage was called on results whose page is not the one that was asked
\* for, and the search for the page after them has been sent
C15_Witness ==
    \E c \in CallIds :
        /\ calls[c].via = "SearchResults.nextPage"
        /\ calls[c].origin \in CallIds
        /\ calls[c].op = "search"
        /\ calls[c].sent = 1
        /\ ResultsAt(calls[c].origin).page # PageOf(calls[calls[c].origin].args.filters)
        /\ calls[c].args.filters.page = Some(ResultsAt(calls[c].origin).page + 1)

\* The entity at o whose follow-up method is via has no client
WithoutClient(via, o) ==
    CASE via = "Member.refresh" -> ~Get(held.member).player.client
      [] via = "RatingUpdate.getMember" -> ~Get(held.update).client
      [] via = "SearchResults.nextPage" -> ~ResultsAt(o).client

\* C16: a follow-up method (Member.refresh, SearchResults.nextPage,
\* RatingUpdate.getMember) called on an entity that has no client fails
\* with a local error that is not a VairifiedError, dispatches no HTTP
\* request, and leaves the entity unchanged.
C16_NoClientFailsLocally ==
    [][\A c \in CallIds, via \in LazyVias, o \in 0..MaxCalls :
          (StartsVia(c, via, o) /\ WithoutClient(via, o))
          => /\ calls'[c].phase = "done"
             /\ calls'[c].outcome.kind = "Error"
             /\ calls'[c].outcome.kind \notin Taxonomy
             /\ calls'[c].sent = 0
             /\ calls'[c].req = NoReq
             /\ timers' = timers
             /\ held' = held
             /\ \A d \in CallIds \ {c} : calls'[d] = calls[d]]_vars

\* A follow-up method has been called on an entity without a client, and has thrown
C16_Witness ==
    \E c \in CallIds :
        /\ calls[c].via \in LazyVias
        /\ calls[c].phase = "done"
        /\ calls[c].exit = "precondition"
        /\ calls[c].sent = 0
        /\ WithoutClient(calls[c].via, calls[c].origin)

\* C14: for non-negative total, page and limit, hasMore holds exactly when
\* page * limit < total, and pages is the ceiling of total / limit (the
\* least n with n * limit >= total) when limit > 0 and 0 when limit = 0;
\* with total = 45 and limit = 20, pages is 3 and hasMore is true on page 2
\* and false on page 3.
C14_Paging ==
    probe.class = "SearchResults" =>
        LET r == probe.object
        IN  /\ probe.hasMore <=> (r.page * r.limit < r.total)
            /\ r.limit > 0 => /\ probe.pages * r.limit >= r.total
                              /\ (probe.pages - 1) * r.limit < r.total
            /\ r.limit = 0 => probe.pages = 0
            /\ (r.total = 45 /\ r.limit = 20) =>
                   /\ probe.pages = 3
                   /\ r.page = 2 => probe.hasMore
                   /\ r.page = 3 => ~probe.hasMore

\* hasMore and pages have been read on page 2 of 45 results, 20 a page
C14_Witness ==
    /\ probe.class = "SearchResults"
    /\ probe.object.total = 45
    /\ probe.object.limit = 20
    /\ probe.object.page = 2
    /\ probe.hasMore
    /\ probe.pages = 3

\* The rating stored under key in splits, None when splits has no such key
Stored(splits, key) ==
    IF \E i \in 1..Len(splits) : splits[i].key = key
    THEN Some(splits[CHOOSE i \in 1..Len(splits) : splits[i].key = key].split.rating)
    ELSE None

\* The legacy abbreviation of a canonical name
Abbreviation(name) ==
    CASE name = "open" -> "VO" [] name = "gender" -> "VG" [] name = "mixed" -> "VM"
      [] name = "recreational" -> "R" [] name = "singles" -> "S"

\* C17: for every RatingSplits and each canonical name (open, gender,
\* mixed, recreational, singles), the getter returns the value stored under
\* the canonical key when that key is present, otherwise the value stored
\* under the legacy abbreviation (VO, VG, VM, R, S), otherwise undefined;
\* the lookup adds no key and changes none: the stored keys are those of
\* the data the RatingSplits was built from.
C17_GetterFallback ==
    probe.class = "RatingSplits" =>
        /\ \A name \in {"open", "gender", "mixed", "recreational", "singles"} :
               probe.getters[name] =
                   (IF Stored(probe.object, name) # None THEN Stored(probe.object, name)
                    ELSE IF Stored(probe.object, Abbreviation(name)) # None
                    THEN Stored(probe.object, Abbreviation(name))
                    ELSE None)
        /\ Len(probe.object) = Len(probe.data)
        /\ \A i \in 1..Len(probe.data) : probe.object[i].key = probe.data[i].key

\* The getter open has been read on splits that hold 0 under 'open' and 4 under 'VO'
C17_Witness ==
    /\ probe.class = "RatingSplits"
    /\ Stored(probe.object, "open") = Some(Num(0))
    /\ Stored(probe.object, "VO") = Some(Num(4))
    /\ probe.getters["open"] = Some(Num(0))
    /\ probe.getters["mixed"] = None

\* The ratings of splits that are strictly greater than zero
PositiveRatings(splits) ==
    {x \in {splits[i].split.rating : i \in 1..Len(splits)} : ~x.nan /\ x.val > 0}

\* best is the greatest of the positive ratings of splits, undefined when there is none
IsBestOf(best, splits) ==
    IF PositiveRatings(splits) = {} THEN best = None
    ELSE /\ best # None
         /\ Get(best) \in PositiveRatings(splits)
         /\ \A x \in PositiveRatings(splits) : x.val <= Get(best).val

\* C18: for every RatingSplits, best (and Player.verifiedRating) is the
\* maximum of the rating values that are strictly greater than zero, and
\* undefined when the collection is empty or holds no positive value; a
\* zero or negative value is never the result.
C18_BestIsMaxPositive ==
    /\ probe.class = "RatingSplits" => IsBestOf(probe.best, probe.object)
    /\ probe.class = "Player" => IsBestOf(probe.verifiedRating, probe.object.ratingSplits)

\* verifiedRating has been read on a player whose splits hold a negative
\* rating and the rating 4
C18_Witness ==
    /\ probe.class = "Player"
    /\ \E i \in 1..Len(probe.object.ratingSplits) : probe.object.ratingSplits[i].split.rating = Num(0 - 2)
    /\ \E i \in 1..Len(probe.object.ratingSplits) : probe.object.ratingSplits[i].split.rating = Num(4)
    /\ probe.verifiedRating = Some(Num(4))

\* The games of scores that the team on side won: those where its score
\* is the greater one, so a game with equal scores is in neither set
GamesWon(scores, side) == {i \in DOMAIN scores : scores[i][side] > scores[i][3 - side]}

\* C19: Match.winner is 1 when team 1 won strictly more games than team 2,
\* 2 when team 2 won strictly more, and 0 otherwise (the empty score list
\* included); a game with equal scores counts for neither team, and every
\* game of the list counts, not only the first five.
C19_Winner ==
    probe.class = "Match" =>
        LET won1 == Cardinality(GamesWon(probe.object.scores, 1))
            won2 == Cardinality(GamesWon(probe.object.scores, 2))
        IN  /\ won1 > won2 => probe.winner = 1
            /\ won2 > won1 => probe.winner = 2
            /\ won1 = won2 => probe.winner = 0

\* winner has been read on a match of six games that the sixth game decides
C19_Witness ==
    /\ probe.class = "Match"
    /\ Len(probe.object.scores) = 6
    /\ Cardinality(GamesWon(probe.object.scores, 1) \ {6}) = Cardinality(GamesWon(probe.object.scores, 2))
    /\ probe.object.scores[1][1] = probe.object.scores[1][2]
    /\ 6 \in GamesWon(probe.object.scores, 1)
    /\ probe.winner = 1

\* C20: Match.format is SINGLES exactly when team1 has one player and
\* DOUBLES otherwise, and the format toJSON writes is that same value.
C20_Format ==
    probe.class = "Match" =>
        /\ probe.format = "SINGLES" <=> Len(probe.object.team1) = 1
        /\ probe.format # "SINGLES" => probe.format = "DOUBLES"
        /\ probe.json # None => Get(probe.json).format = probe.format

\* format has been read and toJSON called on a match of one player against two
C20_Witness ==
    /\ probe.class = "Match"
    /\ Len(probe.object.team1) = 1
    /\ Len(probe.object.team2) = 2
    /\ probe.format = "SINGLES"
    /\ probe.json # None
    /\ Get(probe.json).format = "SINGLES"

\* min(5, n)
AtMostFive(n) == IF n < 5 THEN n ELSE 5

\* The second player of a team, when it has one with a non-empty id
SecondOf(team) == IF Len(team) >= 2 /\ team[2] # "" THEN <<team[2]>> ELSE <<>>

\* The match read has a first player on each team
FirstPlayersGiven ==
    /\ probe.class = "Match"
    /\ Len(probe.object.team1) >= 1 /\ probe.object.team1[1] # ""
    /\ Len(probe.object.team2) >= 1 /\ probe.object.team2[1] # ""

C22_TeamsMatch ==
    (probe.class = "Match" /\ probe.json # None) =>
        LET j == Get(probe.json)
        IN  /\ Len(probe.object.team1) = Len(probe.object.team2)
            /\ Len(probe.object.team1) \in {1, 2}
            /\ j.teamA.player2 # None <=> j.teamB.player2 # None
            /\ j.format = "DOUBLES" <=> (j.teamA.player2 # None /\ j.teamB.player2 # None)

\* C23: for every MatchResult, ok is true if and only if success is true
\* and the error list is empty, an absent error list counting as empty; a
\* result with success = true and at least one error string is not ok.
C23_Ok ==
    probe.class = "MatchResult" =>
        LET errors == IF probe.data.errors = None THEN <<>> ELSE Get(probe.data.errors)
        IN  /\ probe.ok <=> (probe.data.success /\ errors = <<>>)
            /\ (probe.data.success /\ Len(errors) >= 1) => ~probe.ok

\* ok has been read on a result with success = true and one error, and on
\* this one it is false
C23_Witness ==
    /\ probe.class = "MatchResult"
    /\ probe.data.success
    /\ probe.data.errors = Some(<<"bad score">>)
    /\ ~probe.ok

\* A property of the raw data that holds a non-empty string
Named(m) == m # None /\ Get(m) # ""

\* C24: for every Player, name is 'firstName lastName' when both are
\* present, else the display name, else the empty string; and whenever
\* the raw data carries any name information (a display name, a first name
\* or a last name) the resolved name is not empty.
C24_Name ==
    probe.class = "Player" =>
        LET p == probe.object
        IN  /\ (Named(p.firstName) /\ Named(p.lastName)) =>
                   probe.name = <<Get(p.firstName), " ", Get(p.lastName)>>
            /\ (~(Named(p.firstName) /\ Named(p.lastName)) /\ Named(p.displayName)) =>
                   probe.name = <<Get(p.displayName)>>
            /\ (~(Named(p.firstName) /\ Named(p.lastName)) /\ ~Named(p.displayName)) =>
                   probe.name = <<>>
            /\ (Named(probe.data.displayName) \/ Named(probe.data.firstName) \/ Named(probe.data.lastName)) =>
                   probe.name # <<>>

\* The optional property is absent from the raw data
Absent(m) == m = None

\* What C25 says of the entity read, with the connection flag a Player of
\* the member shape defaults to
DefaultsWith(memberShapeConnected) ==
    /\ probe.class \in {"Player", "Member"} =>
           LET p == IF probe.class = "Member" THEN probe.object.player ELSE probe.object
           IN  /\ Absent(probe.data.rating) => p.rating = 0
               /\ Absent(probe.data.isVairified) => p.isVairified = FALSE
               /\ (Absent(probe.data.isConnected) /\ probe.data.displayName # None) => p.isConnected = FALSE
               /\ (Absent(probe.data.isConnected) /\ probe.data.displayName = None) =>
                      p.isConnected = memberShapeConnected
    /\ probe.class = "Member" => (Absent(probe.data.grantedScopes) => probe.object.grantedScopes = <<>>)
    /\ probe.class = "MatchResult" =>
           /\ Absent(probe.data.errors) => probe.object.errors = <<>>
           /\ Absent(probe.data.dryRun) => probe.object.dryRun = FALSE
    /\ probe.class = "RatingUpdate" =>
           /\ Absent(probe.data.previousRating) => probe.object.previousRating = 0
           /\ Absent(probe.data.newRating) => probe.object.newRating = 0

\* C25 as stated: for every raw payload in which optional fields are
\* absent, the entity carries the stated defaults: Player rating 0, the
\* verification flag false and the connection flag false for both the
\* search shape and the member shape, Member grantedScopes the empty list,
\* MatchResult errors the empty list and dryRun false, RatingUpdate
\* previous and new rating 0.
C25_DefaultsAsStated == DefaultsWith(FALSE)

\* C25, amended: the same defaults, except that a Player of the member
\* shape is always connected (isConnected is true), whatever its data
\* says; the connection flag defaults to false for the search shape only.
C25_Defaults ==
    /\ DefaultsWith(TRUE)
    /\ (probe.class \in {"Player", "Member"} /\ probe.data.displayName = None) =>
           (IF probe.class = "Member" THEN probe.object.player ELSE probe.object).isConnected = TRUE

\* A Member has been built from member data without any optional property
C25_Witness ==
    /\ probe.class = "Member"
    /\ probe.data.displayName = None
    /\ probe.data.rating = None
    /\ probe.data.isVairified = None
    /\ probe.data.grantedScopes = None
    /\ probe.object.player.rating = 0
    /\ probe.object.player.isConnected = TRUE
    /\ probe.object.grantedScopes = <<>>

\* Call c settles in this step
Settles(c) == calls[c].phase # "done" /\ calls'[c].phase = "done"

\* C26: requests issued concurrently on one client are independent under
\* every interleaving: a step of one request (its dispatch, its response,
\* its timeout, its error, its completion) changes neither the record nor
\* the timer of another; only a request's own timer aborts it; a settled
\* result never changes; each caller receives the result of its own
\* response (the error of its own status, or the value made of its own
\* method, arguments and body), in whatever order responses arrive; and the
\* client's configuration is the same before and after.
C26_Independent ==
    [][/\ client.state = "ready" => client' = client
       /\ \A c \in CallIds : \A d \in CallIds \ {c} :
              calls'[c] # calls[c] => (calls'[d] = calls[d] /\ (d \in timers' <=> d \in timers))
       /\ \A c \in CallIds :
              /\ (calls'[c].aborted /\ ~calls[c].aborted) => c \in timers
              /\ (c \in timers' /\ c \notin timers) => calls[c].phase = "idle"
              /\ calls[c].phase = "done" => calls'[c] = calls[c]
              /\ (Settles(c) /\ calls'[c].exit = "http") =>
                     /\ calls'[c].outcome.statusCode = Some(calls[c].status)
                     /\ calls'[c].outcome.kind = KindByStatus(calls[c].status)
              /\ (Settles(c) /\ calls'[c].exit = "return") =>
                     /\ ResponseOk(calls[c].status)
                     /\ calls'[c].outcome.value = Some(ResultOf(calls[c].op, calls[c].args, calls'[c].data))
              /\ (Settles(c) /\ calls'[c].exit = "abort") => c \in timers
      ]_vars

\* Two requests were in flight together; the first timed out, and the
\* second, of another method, returned its own value afterwards or before
C26_Witness ==
    /\ calls[1].exit = "abort"
    /\ calls[2].exit = "return"
    /\ calls[1].op # calls[2].op
    /\ calls[2].outcome.value = Some(ResultOf(calls[2].op, calls[2].args, calls[2].data))

\* Call c was made by Member.refresh
ByRefresh(c) == calls'[c].via = "Member.refresh"

\* C27: Member.refresh on a member with a client issues one member lookup
\* for the member's own id; on success it overlays the fetched data onto
\* the same instance and resolves with that instance, and on any failure
\* of the lookup (HTTP error, transport error, unreadable body, timeout) it
\* rejects with that error and leaves every field of the member as it was.
C27_Refresh ==
    [][\A c \in CallIds :
          /\ (calls[c].phase = "idle" /\ calls'[c].phase = "fetching" /\ ByRefresh(c)) =>
                 /\ Get(held.member).player.client
                 /\ calls'[c].op = "getMember"
                 /\ calls'[c].req.method = "GET"
                 /\ Len(calls'[c].req.query) = 1
                 /\ QueryHasStr(calls'[c].req.query, "id", Get(held.member).player.id)
                 /\ calls'[c].sent = 1
                 /\ held' = held
          /\ (ByRefresh(c) /\ calls'[c] # calls[c] /\ calls[c].phase # "idle" /\ calls'[c].phase # "done") =>
                 (held' = held /\ calls'[c].sent = 1)
          /\ (ByRefresh(c) /\ Settles(c) /\ calls'[c].exit \notin {"return", "precondition"}) =>
                 /\ held' = held
                 /\ calls'[c].outcome.kind \notin {"none", "value"}
                 /\ calls'[c].exit = "http" => calls'[c].outcome.statusCode = Some(calls[c].status)
          /\ (ByRefresh(c) /\ Settles(c) /\ calls'[c].exit = "return") =>
                 LET fetched == Member(calls'[c].data.member, TRUE)
                     new == Get(held'.member)
                 IN  /\ calls'[c].outcome.value # None
                     /\ Get(calls'[c].outcome.value).member = held'.member
                     /\ new.player.id = fetched.player.id
                     /\ new.player.rating = fetched.player.rating
                     /\ new.player.isVairified = fetched.player.isVairified
                     /\ new.player.isConnected = fetched.player.isConnected
                     /\ new.player.ratingSplits = fetched.player.ratingSplits
                     /\ new.email = fetched.email
                     /\ new.grantedScopes = fetched.grantedScopes
                     /\ held'.results = held.results /\ held'.update = held.update
      ]_vars

\* A refresh has resolved: the held member now carries the fetched rating
C27_Witness ==
    \E c \in CallIds :
        /\ calls[c].via = "Member.refresh"
        /\ calls[c].exit = "return"
        /\ held.member # None
        /\ Get(held.member).player.rating = 5
        /\ Get(calls[c].outcome.value).member = held.member

\* A refresh has failed and the held member is as it was built
C27_WitnessFailed ==
    \E c \in CallIds :
        /\ calls[c].via = "Member.refresh"
        /\ calls[c].exit \in {"http", "abort", "transport", "parse"}
        /\ held.member # None
        /\ Get(held.member).player.rating = 4

\* Call 1 is a match submission that has been made
Submitted(c) == calls[c].op \in {"submitMatch", "submitMatches"} /\ calls[c].phase # "idle"

\* A match of the batch lacks a first player on one of its teams
LacksFirstPlayer(m) ==
    \/ Len(m.team1) = 0 \/ m.team1[1] = ""
    \/ Len(m.team2) = 0 \/ m.team2[1] = ""

C28_WitnessRefused ==
    /\ Submitted(1)
    /\ calls[1].args.matches = <<DoublesMatch, SinglesMatch, TeamlessMatch>>
    /\ calls[1].exit = "precondition"
    /\ calls[1].sent = 0

\* Call c is a search made by nextPage whose request has been sent
SentByNextPage(c) == calls[c].via = "SearchResults.nextPage" /\ calls[c].sent > 0

\* C29: the offset requested by nextPage equals the current results' page
\* times the current results' limit (the next page starts exactly where
\* the current one ends), for every response the server may give,
\* including one whose limit or page differs from the requested one, and a
\* search issued without an explicit limit.
C29_OffsetContinues ==
    \A c \in CallIds : SentByNextPage(c) =>
        QueryHasInt(calls[c].req.query, "offset",
                    ResultsAt(calls[c].origin).page * ResultsAt(calls[c].origin).limit)

\* Call c was made by nextPage
ByNextPage(c) == calls[c].via = "SearchResults.nextPage" /\ calls[c].phase # "idle"

\* C30: a caller loop that calls nextPage while hasMore is true terminates:
\* nextPage on results whose hasMore is false fails locally with 'No more
\* pages' and dispatches nothing; and when the server echoes the requested
\* page and limit with a fixed total, each nextPage that resolves has a
\* greater page than the results it was called on, with the same number of
\* pages, and hasMore is false once page has reached pages, that is after
\* at most pages - page successful calls.
C30_LoopTerminates ==
    /\ \A c \in CallIds : ByNextPage(c) =>
           IF hasMore(ResultsAt(calls[c].origin))
           THEN calls[c].sent = 1
           ELSE /\ calls[c].exit = "precondition"
                /\ calls[c].outcome.message = "No more pages"
                /\ calls[c].sent = 0
    /\ \A c \in CallIds : (ByNextPage(c) /\ HasResultsAt(c)) =>
           /\ ResultsAt(c).page > ResultsAt(calls[c].origin).page
           /\ pages(ResultsAt(c)) = pages(ResultsAt(calls[c].origin))
    /\ \A o \in CallIds : HasResultsAt(o) =>
           (ResultsAt(o).page >= pages(ResultsAt(o)) => ~hasMore(ResultsAt(o)))

\* The same, for the results whose limit is positive
C30_PositiveLimit ==
    /\ \A c \in CallIds : (ByNextPage(c) /\ HasResultsAt(c)) =>
           /\ ResultsAt(c).page > ResultsAt(calls[c].origin).page
           /\ pages(ResultsAt(c)) = pages(ResultsAt(calls[c].origin))
    /\ \A o \in CallIds : (HasResultsAt(o) /\ ResultsAt(o).limit > 0) =>
           (ResultsAt(o).page >= pages(ResultsAt(o)) => ~hasMore(ResultsAt(o)))

============================================================================
